---- MODULE Spec2Model ----
(***************************************************************************)
(* Relay optimizer (relay-optimizer/src/optimization/optimizer.py) as a    *)
(* state machine: baseline generation, greedy fill (Phase 1), gap fill     *)
(* (Phase 2), bounded local search (Phase 3) and finalize, together with   *)
(* the Team Builder (create_valid_team / Team.validate) as an operator.    *)
(*                                                                         *)
(* Numbers.  Leg times are integers (model time units).  z-scores and      *)
(* contributions are exact rationals [n, d]; d = 0 encodes the IEEE values *)
(* the numpy division produces (n > 0: +inf, n < 0: -inf, n = 0: nan).     *)
(***************************************************************************)
EXTENDS Integers, Sequences, FiniteSets, TLC

VARIABLES
    swimmers,              \* RelayOptimizer.swimmers: roster, Seq of Swimmer records
    events,                \* RelayOptimizer.events: Seq of Event records
    events_assigned,       \* Swimmer.events_assigned, per swimmer index
    baselines,             \* RelayOptimizer.baselines: event_number -> (age_group -> Baseline)
    solution,              \* optimize(): solution, event_number -> Team | None
    swimmer_events,        \* RelayOptimizer.swimmer_events: swimmer -> set of event numbers
    pc,                    \* position inside optimize() / the operation being exercised
    event_index,           \* loop index of the loops over self.events
    iteration,             \* Phase 3: the range() loop variable
    no_improvement_count,  \* Phase 3: consecutive iterations without improvement
    result,                \* OptimizationResult: assignments, events_skipped
    last_op,               \* what the last completed operation was applied to (history)
    built,                 \* Team Builder: the quartet handed over and the value returned
    issues,                \* validate_constraints: whether it was called, the list it returned
    cancel_requested,      \* history: the caller has asked for the run to be cancelled
    band_index,            \* generate_baselines: index of the loop over Team.AGE_GROUPS
    sim_round,             \* generate_baselines: index of the n_simulations loop
    attempt,               \* generate_random_team: attempts made by the last call
    times_recorded,        \* generate_baselines: len(times) of the (event, band) sampled
    sample_counts,         \* len(times) each finished (event, band) ended with (history)
    row,                   \* importer: the row (dictionary, in column order) being parsed
    parsed                 \* parse_swimmer_row_flexible: whether it was called, what it returned

vars == <<swimmers, events, events_assigned, baselines, solution, swimmer_events,
          pc, event_index, iteration, no_improvement_count, result, last_op,
          built, issues, cancel_requested, band_index, sim_round, attempt, times_recorded, sample_counts,
          row, parsed>>

inputVars == <<swimmers, events>>

engineVars == <<events_assigned, solution, swimmer_events>>

loopVars == <<iteration, no_improvement_count>>

importVars == <<row, parsed>>

callerVars == <<built, issues, cancel_requested, row, parsed>>

roundVars == <<sim_round, attempt, times_recorded, sample_counts>>

samplingVars == <<band_index, sim_round, attempt, times_recorded, sample_counts>>

-----------------------------------------------------------------------------
(* Domain model: models/swimmer.py, models/event.py, models/team.py        *)

None == <<>>

Strokes == {"Back", "Breast", "Fly", "Free"}

MedleyStrokes == <<"Back", "Breast", "Fly", "Free">>

AGE_GROUPS == << <<72, 99>>, <<100, 119>>, <<120, 159>>, <<160, 199>>,
                 <<200, 239>>, <<240, 279>>, <<280, 319>> >>

SwimmerIds == 1..Len(swimmers)

available_for(s, session) ==
    IF session = "AM" THEN swimmers[s].morning_available
    ELSE IF session = "PM" THEN swimmers[s].afternoon_available
    ELSE FALSE

can_swim(s, stroke) == stroke \notin swimmers[s].excluded_strokes

has_time_for(s, stroke, distance) == <<stroke, distance>> \in DOMAIN swimmers[s].times

get_time(s, stroke, distance) == swimmers[s].times[<<stroke, distance>>]

get_strokes(e) ==
    IF e.stroke_type = "Medley" THEN MedleyStrokes
    ELSE <<"Free", "Free", "Free", "Free">>

RECURSIVE SumSeq(_)
SumSeq(s) == IF s = <<>> THEN 0 ELSE Head(s) + SumSeq(Tail(s))

total_age(team) == SumSeq([i \in 1..Len(team) |-> swimmers[team[i]].age])

\* the loop over AGE_GROUPS and the two fallbacks of Team.age_group
AgeGroupOf(total) ==
    IF \E k \in 1..Len(AGE_GROUPS) : AGE_GROUPS[k][1] <= total /\ total <= AGE_GROUPS[k][2]
    THEN AGE_GROUPS[CHOOSE k \in 1..Len(AGE_GROUPS) :
                        AGE_GROUPS[k][1] <= total /\ total <= AGE_GROUPS[k][2]]
    ELSE IF total >= 320 THEN <<280, 319>>
    ELSE <<72, 99>>

age_group(team) == AgeGroupOf(total_age(team))

\* Team.calculate_time for a team whose members all hold a time for their leg
\* (the only teams create_valid_team returns).
calculate_time(team, e) ==
    SumSeq([i \in 1..4 |-> get_time(team[i], get_strokes(e)[i], e.distance)])

CountGender(sw, g) == Cardinality({i \in 1..Len(sw) : swimmers[sw[i]].gender = g})

\* Team.validate without the "at max events" check
validate_without_quota(team, e, ea) ==
    /\ Len(team) = 4
    /\ e.gender_type = "Men" => \A i \in 1..4 : swimmers[team[i]].gender = "M"
    /\ e.gender_type = "Women" => \A i \in 1..4 : swimmers[team[i]].gender = "F"
    /\ e.gender_type = "Mixed" => CountGender(team, "M") = 2 /\ CountGender(team, "F") = 2
    /\ \A i \in 1..4 : available_for(team[i], e.session)
    /\ \A i \in 1..4 : /\ can_swim(team[i], get_strokes(e)[i])
                       /\ has_time_for(team[i], get_strokes(e)[i], e.distance)

\* Team.validate; ea is the events_assigned field of every swimmer as it is read.
validate(team, e, ea) ==
    /\ Len(team) = 4
    /\ e.gender_type = "Men" => \A i \in 1..4 : swimmers[team[i]].gender = "M"
    /\ e.gender_type = "Women" => \A i \in 1..4 : swimmers[team[i]].gender = "F"
    /\ e.gender_type = "Mixed" => CountGender(team, "M") = 2 /\ CountGender(team, "F") = 2
    /\ \A i \in 1..4 : /\ available_for(team[i], e.session)
                       /\ ~(ea[team[i]] >= swimmers[team[i]].max_events)
    /\ \A i \in 1..4 : /\ can_swim(team[i], get_strokes(e)[i])
                       /\ has_time_for(team[i], get_strokes(e)[i], e.distance)

-----------------------------------------------------------------------------
(* itertools.permutations / itertools.combinations: index tuples in the    *)
(* order the library yields them (lexicographic in positions).             *)

RemoveAt(s, i) == [j \in 1..(Len(s) - 1) |-> IF j < i THEN s[j] ELSE s[j + 1]]

\* the concatenation of a list of lists, by halves
RECURSIVE Flatten(_)
Flatten(ss) ==
    IF ss = <<>> THEN <<>>
    ELSE IF Len(ss) = 1 THEN ss[1]
    ELSE Flatten(SubSeq(ss, 1, Len(ss) \div 2)) \o Flatten(SubSeq(ss, Len(ss) \div 2 + 1, Len(ss)))

RECURSIVE permutations(_)
permutations(s) ==
    IF s = <<>> THEN << <<>> >>
    ELSE Flatten([i \in 1..Len(s) |->
             LET rest == permutations(RemoveAt(s, i))
             IN  [k \in 1..Len(rest) |-> <<s[i]>> \o rest[k]]])

RECURSIVE combinations(_, _)
combinations(s, r) ==
    IF r = 0 THEN << <<>> >>
    ELSE IF Len(s) < r THEN <<>>
    ELSE LET with == combinations(Tail(s), r - 1)
         IN  [k \in 1..Len(with) |-> <<Head(s)>> \o with[k]] \o combinations(Tail(s), r)

PermIndex4 == permutations(<<1, 2, 3, 4>>)

-----------------------------------------------------------------------------
(* Team Builder: RelayOptimizer.create_valid_team                          *)

Inf == -1

\* time < best_time where either side may be float('inf')
TimeLt(a, b) == a # Inf /\ (b = Inf \/ a < b)

\* list(perm) for the k-th permutation of the quartet
Reordered(sw, k) == [i \in 1..4 |-> sw[PermIndex4[k][i]]]

\* The inner loop over zip(perm, strokes): `valid` when it ends
PermValid(perm, e) ==
    \A i \in 1..4 : /\ can_swim(perm[i], MedleyStrokes[i])
                     /\ has_time_for(perm[i], MedleyStrokes[i], e.distance)

\* The inner loop over zip(perm, strokes): `time` when it ends with valid
PermTime(perm, e) == SumSeq([i \in 1..4 |-> get_time(perm[i], MedleyStrokes[i], e.distance)])

\* "if valid and time < best_time" with <= for <
RECURSIVE MedleyLoopKeepingLast(_, _, _, _, _)
MedleyLoopKeepingLast(sw, e, k, best_team, best_time) ==
    IF k > Len(PermIndex4) THEN best_team
    ELSE IF PermValid(Reordered(sw, k), e)
            /\ ~TimeLt(best_time, PermTime(Reordered(sw, k), e))
    THEN MedleyLoopKeepingLast(sw, e, k + 1, Reordered(sw, k), PermTime(Reordered(sw, k), e))
    ELSE MedleyLoopKeepingLast(sw, e, k + 1, best_team, best_time)

\* The loop "for perm in permutations(swimmers)" from position k on
RECURSIVE MedleyLoop(_, _, _, _, _)
MedleyLoop(sw, e, k, best_team, best_time) ==
    IF k > Len(PermIndex4) THEN best_team
    ELSE IF PermValid(Reordered(sw, k), e)
            /\ TimeLt(PermTime(Reordered(sw, k), e), best_time)
    THEN MedleyLoop(sw, e, k + 1, Reordered(sw, k), PermTime(Reordered(sw, k), e))
    ELSE MedleyLoop(sw, e, k + 1, best_team, best_time)

create_valid_team(sw, e, ea) ==
    IF Len(sw) # 4 THEN None
    ELSE IF e.stroke_type = "Free"
         THEN IF validate(sw, e, ea) THEN sw ELSE None
         ELSE MedleyLoop(sw, e, 1, None, Inf)

-----------------------------------------------------------------------------
(* Float values of the scoring code as exact rationals                     *)

Rat(n, d) == [n |-> n, d |-> d]

Zero == Rat(0, 1)

PosInf == Rat(1, 0)

NegInf == Rat(-1, 0)

NaN == Rat(0, 0)

IsNaN(a) == a.d = 0 /\ a.n = 0

Sign(x) == IF x > 0 THEN 1 ELSE IF x < 0 THEN -1 ELSE 0

\* a < b on floats: false as soon as one side is nan
Lt(a, b) ==
    /\ ~IsNaN(a)
    /\ ~IsNaN(b)
    /\ IF a.d = 0 /\ b.d = 0 THEN a.n < b.n ELSE a.n * b.d < b.n * a.d

Gt(a, b) == Lt(b, a)

\* a - b on floats
Sub(a, b) ==
    IF IsNaN(a) \/ IsNaN(b) THEN NaN
    ELSE IF a.d = 0 THEN (IF b.d = 0 /\ b.n = a.n THEN NaN ELSE a)
    ELSE IF b.d = 0 THEN Rat(-b.n, 0)
    ELSE Rat(a.n * b.d - b.n * a.d, a.d * b.d)

\* a + p/q for a finite a
AddConst(a, p, q) == Rat(a.n * q + p * a.d, a.d * q)

Range(s) == {s[i] : i \in 1..Len(s)}

RECURSIVE SortedSeq(_)
SortedSeq(S) ==
    IF S = {} THEN <<>>
    ELSE LET m == CHOOSE x \in S : \A y \in S : x <= y
         IN  <<m>> \o SortedSeq(S \ {m})

EventNumbers == {events[i].event_number : i \in 1..Len(events)}

\* next(e for e in self.events if e.event_number == event_num)
EventByNumber(n) ==
    events[CHOOSE i \in 1..Len(events) :
              /\ events[i].event_number = n
              /\ \A j \in 1..(i - 1) : events[j].event_number # n]

NoEvent == 0

NoSwimmer == 0

-----------------------------------------------------------------------------
(* Scoring and per-swimmer helpers of RelayOptimizer                       *)

\* (baseline.mean_time - team_time) / baseline.std_time behind the
\* "std_time == 0" guard
ZScoreAgainst(baseline, team_time) ==
    IF baseline.std_time = 0 THEN Zero
    ELSE Rat(baseline.mean_time - team_time, baseline.std_time)

calculate_z_score(team, e) ==
    IF e.event_number \notin DOMAIN baselines THEN Zero
    ELSE IF age_group(team) \notin DOMAIN baselines[e.event_number] THEN Zero
    ELSE ZScoreAgainst(baselines[e.event_number][age_group(team)], calculate_time(team, e))

get_swimmer_time_for_event(s, e, team) ==
    IF e.stroke_type = "Free"
    THEN (IF has_time_for(s, "Free", e.distance) THEN get_time(s, "Free", e.distance) ELSE Inf)
    ELSE LET at == {i \in 1..Len(team) : team[i] = s}
         IN  IF at = {} THEN Inf
             ELSE LET i == CHOOSE i \in at : \A j \in at : i <= j
                  IN  IF has_time_for(s, MedleyStrokes[i], e.distance)
                      THEN get_time(s, MedleyStrokes[i], e.distance) ELSE Inf

get_swimmer_best_time_for_event(s, e) ==
    IF e.stroke_type = "Free"
    THEN (IF has_time_for(s, "Free", e.distance) THEN get_time(s, "Free", e.distance) ELSE Inf)
    ELSE LET ts == {get_time(s, st, e.distance) :
                       st \in {x \in Strokes : can_swim(s, x) /\ has_time_for(s, x, e.distance)}}
         IN  IF ts = {} THEN Inf ELSE CHOOSE t \in ts : \A u \in ts : t <= u

\* the age_groups entry that holds approx_team_age = num / den (compared
\* without dividing), None when the loop finds none
ApproxBand(num, den) ==
    LET hit == {k \in 1..Len(AGE_GROUPS) :
                   AGE_GROUPS[k][1] * den <= num /\ num <= AGE_GROUPS[k][2] * den}
    IN  IF hit = {} THEN None ELSE AGE_GROUPS[CHOOSE k \in hit : TRUE]

\* self.baselines.get(event.event_number, {}).get(age_group)
BaselineAt(e, band) ==
    IF band # None /\ e.event_number \in DOMAIN baselines
       /\ band \in DOMAIN baselines[e.event_number]
    THEN baselines[e.event_number][band]
    ELSE None

\* approx_team_age = swimmer.age + 3 * sum(ages) / len(swimmers)
get_baseline_for_swimmer_age(s, e) ==
    BaselineAt(e, ApproxBand(swimmers[s].age * Len(swimmers)
                                 + 3 * SumSeq([i \in 1..Len(swimmers) |-> swimmers[i].age]),
                             Len(swimmers)))

\* estimate_swimmer_contribution from the swimmer's best time and baseline
EstimateFrom(time, baseline) ==
    IF time = Inf THEN Rat(-10, 1)
    ELSE IF baseline = None THEN Zero
    ELSE IF baseline.std_time = 0 THEN Rat(Sign(baseline.mean_time - 4 * time), 0)
    ELSE Rat(baseline.mean_time - 4 * time, baseline.std_time)

estimate_swimmer_contribution(s, e) ==
    EstimateFrom(get_swimmer_best_time_for_event(s, e), get_baseline_for_swimmer_age(s, e))

\* current_z * (swimmer_time / team_time)
ShareOf(current_z, swimmer_time, team_time) ==
    Rat(current_z.n * swimmer_time, current_z.d * team_time)

\* calculate_swimmer_contribution once team = solution.get(event_number)
ContributionIn(team, s, e) ==
    IF team = None \/ s \notin Range(team) THEN Zero
    ELSE ShareOf(calculate_z_score(team, e), get_swimmer_time_for_event(s, e, team),
                 calculate_time(team, e))

calculate_swimmer_contribution(s, e, st) == ContributionIn(st.solution[e.event_number], s, e)

\* loop of find_worst_event_for_swimmer over the event numbers left to visit:
\* WorstKeep is "if contribution < worst_contribution"
RECURSIVE WorstLoop(_, _, _, _, _)
RECURSIVE WorstKeep(_, _, _, _, _, _)
WorstKeep(s, st, todo, worst_event, worst_contribution, contribution) ==
    IF Lt(contribution, worst_contribution)
    THEN WorstLoop(s, st, Tail(todo), Head(todo), contribution)
    ELSE WorstLoop(s, st, Tail(todo), worst_event, worst_contribution)

WorstLoop(s, st, todo, worst_event, worst_contribution) ==
    IF todo = <<>> THEN worst_event
    ELSE WorstKeep(s, st, todo, worst_event, worst_contribution,
                   calculate_swimmer_contribution(s, EventByNumber(Head(todo)), st))

find_worst_event_for_swimmer(s, st) ==
    WorstLoop(s, st, SortedSeq(st.swimmer_events[s]), NoEvent, PosInf)

\* would_swap_improve once the swimmer's worst event is known
SwapImproves(s, new_event, st, worst_event_num) ==
    IF worst_event_num = NoEvent THEN FALSE
    ELSE Gt(estimate_swimmer_contribution(s, new_event),
            AddConst(calculate_swimmer_contribution(s, EventByNumber(worst_event_num), st),
                     5, 100))

would_swap_improve(s, new_event, st) ==
    SwapImproves(s, new_event, st, find_worst_event_for_swimmer(s, st))

\* get_eligible_swimmers without the session check
get_eligible_swimmers_any_session(e) ==
    SelectSeq([i \in 1..Len(swimmers) |-> i],
              LAMBDA s : IF e.stroke_type = "Free"
                         THEN can_swim(s, "Free") /\ has_time_for(s, "Free", e.distance)
                         ELSE \E st \in Strokes : can_swim(s, st) /\ has_time_for(s, st, e.distance))

get_eligible_swimmers(e) ==
    SelectSeq([i \in 1..Len(swimmers) |-> i],
              LAMBDA s : /\ available_for(s, e.session)
                         /\ IF e.stroke_type = "Free"
                            THEN can_swim(s, "Free") /\ has_time_for(s, "Free", e.distance)
                            ELSE \E st \in Strokes : can_swim(s, st) /\ has_time_for(s, st, e.distance))

\* the MENS / WOMENS filter applied after get_eligible_swimmers
GenderFilter(pool, e) ==
    IF e.gender_type = "Men" THEN SelectSeq(pool, LAMBDA s : swimmers[s].gender = "M")
    ELSE IF e.gender_type = "Women" THEN SelectSeq(pool, LAMBDA s : swimmers[s].gender = "F")
    ELSE pool

-----------------------------------------------------------------------------
(* Engine operations.  st = [solution, swimmer_events, events_assigned] is *)
(* the mutable state they read and write.                                  *)

Under(s, st) == Cardinality(st.swimmer_events[s]) < swimmers[s].max_events

\* self.swimmer_events[s].add(n); s.events_assigned = len(self.swimmer_events[s])
AddEvent(st, s, n) ==
    [st EXCEPT !.swimmer_events[s] = @ \cup {n},
               !.events_assigned[s] = Cardinality(st.swimmer_events[s] \cup {n})]

\* self.swimmer_events[s].discard(n); s.events_assigned = len(self.swimmer_events[s])
DiscardEvent(st, s, n) ==
    [st EXCEPT !.swimmer_events[s] = @ \ {n},
               !.events_assigned[s] = Cardinality(st.swimmer_events[s] \ {n})]

\* "for swimmer in team.swimmers: add ..." after solution[n] = team
RECURSIVE AddAll(_, _, _)
AddAll(st, members, n) ==
    IF members = <<>> THEN st ELSE AddAll(AddEvent(st, Head(members), n), Tail(members), n)

Install(st, team, n) == AddAll([st EXCEPT !.solution[n] = team], team, n)

\* loop of find_replacement_swimmer over the rest of `available`:
\* ReplacementKeep is "if time < best_time"
RECURSIVE ReplacementLoop(_, _, _, _)
RECURSIVE ReplacementKeep(_, _, _, _, _)
ReplacementKeep(pool, e, best_swimmer, best_time, time) ==
    IF TimeLt(time, best_time)
    THEN ReplacementLoop(Tail(pool), e, Head(pool), time)
    ELSE ReplacementLoop(Tail(pool), e, best_swimmer, best_time)

ReplacementLoop(pool, e, best_swimmer, best_time) ==
    IF pool = <<>> THEN best_swimmer
    ELSE ReplacementKeep(pool, e, best_swimmer, best_time,
                         get_swimmer_best_time_for_event(Head(pool), e))

\* the gender filter of find_replacement_swimmer
ReplacementPool(eligible, current_swimmers, e) ==
    IF e.gender_type = "Mixed"
    THEN IF CountGender(current_swimmers, "M") < 2
         THEN SelectSeq(eligible, LAMBDA s : swimmers[s].gender = "M")
         ELSE IF CountGender(current_swimmers, "F") < 2
         THEN SelectSeq(eligible, LAMBDA s : swimmers[s].gender = "F")
         ELSE eligible
    ELSE GenderFilter(eligible, e)

find_replacement_swimmer(current_swimmers, e, st) ==
    ReplacementLoop(SelectSeq(ReplacementPool(get_eligible_swimmers(e), current_swimmers, e),
                              LAMBDA s : s \notin Range(current_swimmers) /\ Under(s, st)),
                    e, NoSwimmer, Inf)

\* loop of find_weakest_swimmer_in_team over the rest of team.swimmers:
\* WeakestKeep is "if contribution < worst_contribution"
RECURSIVE WeakestLoop(_, _, _, _, _)
RECURSIVE WeakestKeep(_, _, _, _, _, _)
WeakestKeep(pool, team, e, weakest, worst_contribution, contribution) ==
    IF TimeLt(contribution, worst_contribution)
    THEN WeakestLoop(Tail(pool), team, e, Head(pool), contribution)
    ELSE WeakestLoop(Tail(pool), team, e, weakest, worst_contribution)

WeakestLoop(pool, team, e, weakest, worst_contribution) ==
    IF pool = <<>> THEN weakest
    ELSE WeakestKeep(pool, team, e, weakest, worst_contribution,
                     get_swimmer_time_for_event(Head(pool), e, team))

find_weakest_swimmer_in_team(team, e) == WeakestLoop(team, team, e, NoSwimmer, Inf)

\* remove_swimmer_from_event, "if new_team:" after create_valid_team
Reseat(st1, e, replacement, new_team) ==
    IF new_team # None
    THEN AddEvent([st1 EXCEPT !.solution[e.event_number] = new_team],
                  replacement, e.event_number)
    ELSE st1

\* remove_swimmer_from_event, "if replacement:" ... "else: solution[n] = None"
ReplaceWith(st1, remaining, e, replacement) ==
    IF replacement # NoSwimmer
    THEN Reseat(st1, e, replacement,
                create_valid_team(Append(remaining, replacement), e, st1.events_assigned))
    ELSE [st1 EXCEPT !.solution[e.event_number] = None]

\* remove_swimmer_from_event after the discard: st1 is the usage without the
\* swimmer, remaining the other members of the team
ReplaceIn(st1, remaining, e) ==
    ReplaceWith(st1, remaining, e, find_replacement_swimmer(remaining, e, st1))

remove_swimmer_from_event(st, s, event_num) ==
    IF st.solution[event_num] = None \/ s \notin Range(st.solution[event_num]) THEN st
    ELSE ReplaceIn(DiscardEvent(st, s, event_num),
                   SelectSeq(st.solution[event_num], LAMBDA x : x # s),
                   EventByNumber(event_num))

\* find_any_valid_team, mixed branch: the first two men and the first two women
FirstTwoAndTwo(men, women, e, st) ==
    IF Len(men) >= 2 /\ Len(women) >= 2
    THEN create_valid_team(SubSeq(men, 1, 2) \o SubSeq(women, 1, 2), e, st.events_assigned)
    ELSE None

\* find_any_valid_team on the eligible swimmers under their maximum
FirstFour(available, e, st) ==
    IF Len(available) < 4 THEN None
    ELSE IF e.gender_type = "Mixed"
    THEN FirstTwoAndTwo(SelectSeq(available, LAMBDA s : swimmers[s].gender = "M"),
                        SelectSeq(available, LAMBDA s : swimmers[s].gender = "F"), e, st)
    ELSE create_valid_team(SubSeq(available, 1, 4), e, st.events_assigned)

\* find_any_valid_team without the MENS / WOMENS filter
find_any_valid_team_any_gender(e, st) ==
    FirstFour(SelectSeq(get_eligible_swimmers(e), LAMBDA s : Under(s, st)), e, st)

find_any_valid_team(e, st) ==
    FirstFour(SelectSeq(GenderFilter(get_eligible_swimmers(e), e), LAMBDA s : Under(s, st)),
              e, st)

\* add_swimmer_to_event returning False: nothing changed
NotAdded(st) == [st |-> st, ok |-> FALSE]

\* add_swimmer_to_event, "if not team": install what find_any_valid_team found
AddByNewTeam(st, e, new_team) ==
    IF new_team # None
    THEN [st |-> Install(st, new_team, e.event_number), ok |-> TRUE]
    ELSE NotAdded(st)

\* add_swimmer_to_event, full team: the new team replaces the weakest by s
AddByReplacing(st, s, e, weakest, new_team) ==
    IF new_team # None
    THEN [st |-> AddEvent(DiscardEvent([st EXCEPT !.solution[e.event_number] = new_team],
                                       weakest, e.event_number),
                          s, e.event_number),
          ok |-> TRUE]
    ELSE NotAdded(st)

\* add_swimmer_to_event, full team, "if weakest:"
AddForWeakest(st, s, e, team, weakest) ==
    IF weakest # NoSwimmer
    THEN AddByReplacing(st, s, e, weakest,
                        create_valid_team(Append(SelectSeq(team, LAMBDA x : x # weakest), s),
                                          e, st.events_assigned))
    ELSE NotAdded(st)

\* add_swimmer_to_event, "Room to add"
AddByJoining(st, s, e, new_team) ==
    IF new_team # None
    THEN [st |-> AddEvent([st EXCEPT !.solution[e.event_number] = new_team],
                          s, e.event_number),
          ok |-> TRUE]
    ELSE NotAdded(st)

\* add_swimmer_to_event once team = solution.get(event_number)
AddTo(st, s, e, team) ==
    IF team = None THEN AddByNewTeam(st, e, find_any_valid_team(e, st))
    ELSE IF Len(team) >= 4
    THEN AddForWeakest(st, s, e, team, find_weakest_swimmer_in_team(team, e))
    ELSE AddByJoining(st, s, e, create_valid_team(Append(team, s), e, st.events_assigned))

\* returns [st, ok]
add_swimmer_to_event(st, s, e) == AddTo(st, s, e, st.solution[e.event_number])

\* the mixed-team gender room check of can_swimmer_join_event
GenderRoom(s, team) ==
    /\ ~(swimmers[s].gender = "M" /\ CountGender(team, "M") >= 2)
    /\ ~(swimmers[s].gender = "F" /\ CountGender(team, "F") >= 2)

can_swimmer_join_event(s, e, st) ==
    /\ available_for(s, e.session)
    /\ ~(e.gender_type = "Men" /\ swimmers[s].gender # "M")
    /\ ~(e.gender_type = "Women" /\ swimmers[s].gender # "F")
    /\ IF e.stroke_type = "Free"
       THEN can_swim(s, "Free") /\ has_time_for(s, "Free", e.distance)
       ELSE \E st_ \in Strokes : can_swim(s, st_) /\ has_time_for(s, st_, e.distance)
    /\ (st.solution[e.event_number] # None /\ e.gender_type = "Mixed") =>
           GenderRoom(s, st.solution[e.event_number])

\* loop of try_improve_swimmer over potential_events, returning
\* [event, improvement]: ImproveKeep is "if improvement > best_improvement"
RECURSIVE ImproveLoop(_, _, _, _, _, _)
RECURSIVE ImproveKeep(_, _, _, _, _, _, _)
ImproveKeep(s, st, todo, worst_contribution, best_new_event, best_improvement, improvement) ==
    IF Gt(improvement, best_improvement)
    THEN ImproveLoop(s, st, Tail(todo), worst_contribution, Head(todo).event_number, improvement)
    ELSE ImproveLoop(s, st, Tail(todo), worst_contribution, best_new_event, best_improvement)

ImproveLoop(s, st, todo, worst_contribution, best_new_event, best_improvement) ==
    IF todo = <<>> THEN [event |-> best_new_event, improvement |-> best_improvement]
    ELSE IF can_swimmer_join_event(s, Head(todo), st)
    THEN ImproveKeep(s, st, todo, worst_contribution, best_new_event, best_improvement,
                     Sub(estimate_swimmer_contribution(s, Head(todo)), worst_contribution))
    ELSE ImproveLoop(s, st, Tail(todo), worst_contribution, best_new_event, best_improvement)

\* try_improve_swimmer returning False before any change
NoSwap(st) == [st |-> st, improved |-> FALSE, from |-> NoEvent, to |-> NoEvent, mid |-> st]

\* the swap: mid is the state remove_swimmer_from_event left
SwapDecided(mid, added, from, to) ==
    [st |-> added.st, improved |-> added.ok, from |-> from, to |-> to, mid |-> mid]

SwapVia(mid, s, from, to) ==
    SwapDecided(mid, add_swimmer_to_event(mid, s, EventByNumber(to)), from, to)

\* try_improve_swimmer, "if best_new_event and best_improvement > 0.01"
SwapIfBetter(st, s, worst_event_num, best) ==
    IF best.event # NoEvent /\ Gt(best.improvement, Rat(1, 100))
    THEN SwapVia(remove_swimmer_from_event(st, s, worst_event_num), s,
                 worst_event_num, best.event)
    ELSE NoSwap(st)

\* try_improve_swimmer once the swimmer's worst event is known
ImproveFrom(st, s, worst_event_num) ==
    IF worst_event_num = NoEvent THEN NoSwap(st)
    ELSE SwapIfBetter(st, s, worst_event_num,
             ImproveLoop(s, st,
                         SelectSeq(events, LAMBDA e : e.event_number \notin st.swimmer_events[s]),
                         calculate_swimmer_contribution(s, EventByNumber(worst_event_num), st),
                         NoEvent, Zero))

\* try_improve_swimmer after random.choice(candidates) returned s.
\* Returns [st, improved] and, for the record, the events of the swap it
\* decided on (NoEvent when it decided on none) and the state between the
\* removal and the addition.
try_improve_swimmer(st, s) == ImproveFrom(st, s, find_worst_event_for_swimmer(s, st))

\* list.sort(key=get_swimmer_best_time_for_event): stable, ascending;
\* x is inserted behind every element that is not slower
InsertByTime(rest, x, e) ==
    SelectSeq(rest, LAMBDA y : ~TimeLt(get_swimmer_best_time_for_event(x, e),
                                       get_swimmer_best_time_for_event(y, e)))
    \o <<x>> \o
    SelectSeq(rest, LAMBDA y : TimeLt(get_swimmer_best_time_for_event(x, e),
                                      get_swimmer_best_time_for_event(y, e)))

RECURSIVE SortByTime(_, _)
SortByTime(pool, e) ==
    IF pool = <<>> THEN <<>>
    ELSE InsertByTime(SortByTime(SubSeq(pool, 1, Len(pool) - 1), e), pool[Len(pool)], e)

TOP_MIXED == 20

TOP_SINGLE == 30

Prefix(s, k) == SubSeq(s, 1, IF k < Len(s) THEN k ELSE Len(s))

\* "Auto-swap if needed": for swimmer in team.swimmers ...;
\* AutoSwapWorst is "if worst_event: self.remove_swimmer_from_event(...)"
RECURSIVE AutoSwap(_, _)
RECURSIVE AutoSwapWorst(_, _, _)
AutoSwapWorst(st, members, worst_event) ==
    IF worst_event # NoEvent
    THEN AutoSwap(remove_swimmer_from_event(st, Head(members), worst_event), Tail(members))
    ELSE AutoSwap(st, Tail(members))

AutoSwap(st, members) ==
    IF members = <<>> THEN st
    ELSE IF Cardinality(st.swimmer_events[Head(members)]) = swimmers[Head(members)].max_events
    THEN AutoSwapWorst(st, members, find_worst_event_for_swimmer(Head(members), st))
    ELSE AutoSwap(st, Tail(members))

\* the index in lo..hi of the first combination create_valid_team returns a
\* team for, 0 when it returns None for all of them (searched by halves)
RECURSIVE FirstBuildable(_, _, _, _, _)
FirstBuildable(e, candidates, ea, lo, hi) ==
    IF lo > hi THEN 0
    ELSE IF create_valid_team(candidates[lo], e, ea) # None THEN lo
    ELSE IF FirstBuildable(e, candidates, ea, lo + 1, (lo + hi) \div 2) # 0
    THEN FirstBuildable(e, candidates, ea, lo + 1, (lo + hi) \div 2)
    ELSE FirstBuildable(e, candidates, ea, (lo + hi) \div 2 + 1, hi)

From(candidates, k) == IF k = 0 THEN <<>> ELSE SubSeq(candidates, k, Len(candidates))

\* the combinations left once the loop has passed those that yield no team
\* ("if team:" false changes nothing)
SkipUnbuildable(e, candidates, ea) ==
    From(candidates, FirstBuildable(e, candidates, ea, 1, Len(candidates)))

\* the candidate loops of find_best_team_for_event from the next combination
\* on, returning [st, team]: BestTry is "if team:", BestKeep is
\* "if z_score > best_z_score" with the auto-swap it guards
RECURSIVE BestLoop(_, _, _, _, _)
RECURSIVE BestTry(_, _, _, _, _, _)
RECURSIVE BestKeep(_, _, _, _, _, _, _)
\* "if z_score < best_z_score" once a team is held: keeps the lowest score
BestKeepLowest(e, candidates, st, best_team, best_z_score, team, z_score) ==
    IF best_team = None \/ Lt(z_score, best_z_score)
    THEN BestLoop(e, Tail(candidates), AutoSwap(st, team), team, z_score)
    ELSE BestLoop(e, Tail(candidates), st, best_team, best_z_score)

BestKeep(e, candidates, st, best_team, best_z_score, team, z_score) ==
    IF Gt(z_score, best_z_score)
    THEN BestLoop(e, Tail(candidates), AutoSwap(st, team), team, z_score)
    ELSE BestLoop(e, Tail(candidates), st, best_team, best_z_score)

BestTry(e, candidates, st, best_team, best_z_score, team) ==
    IF team # None
    THEN BestKeep(e, candidates, st, best_team, best_z_score, team, calculate_z_score(team, e))
    ELSE BestLoop(e, SkipUnbuildable(e, Tail(candidates), st.events_assigned), st,
                  best_team, best_z_score)

BestLoop(e, candidates, st, best_team, best_z_score) ==
    IF candidates = <<>> THEN [st |-> st, team |-> best_team]
    ELSE BestTry(e, candidates, st, best_team, best_z_score,
                 create_valid_team(Head(candidates), e, st.events_assigned))

\* the pool find_best_team_for_event enumerates over ("available")
Phase1Pool(e, st) ==
    SelectSeq(GenderFilter(get_eligible_swimmers(e), e),
              LAMBDA s : \/ Under(s, st)
                         \/ /\ Cardinality(st.swimmer_events[s]) = swimmers[s].max_events
                            /\ would_swap_improve(s, e, st))

\* the nested loops over combinations(men, 2) and combinations(women, 2)
PairUp(mc, wc) == Flatten([i \in 1..Len(mc) |-> [j \in 1..Len(wc) |-> mc[i] \o wc[j]]])

\* the mixed branch once men and women are split off
MixedCandidates(men, women, e) ==
    IF Len(men) < 2 \/ Len(women) < 2 THEN <<>>
    ELSE PairUp(combinations(Prefix(SortByTime(men, e), TOP_MIXED), 2),
                combinations(Prefix(SortByTime(women, e), TOP_MIXED), 2))

Phase1Candidates(e, available) ==
    IF e.gender_type = "Mixed"
    THEN MixedCandidates(SelectSeq(available, LAMBDA s : swimmers[s].gender = "M"),
                         SelectSeq(available, LAMBDA s : swimmers[s].gender = "F"), e)
    ELSE combinations(Prefix(SortByTime(available, e), TOP_SINGLE), 4)

\* find_best_team_for_event once `available` is built
BestFrom(e, st, available) ==
    IF Len(available) < 4 THEN [st |-> st, team |-> None]
    ELSE BestLoop(e, Phase1Candidates(e, available), st, None, NegInf)

\* returns [st, team]: the enumeration mutates st through the auto-swaps
find_best_team_for_event(e, st) == BestFrom(e, st, Phase1Pool(e, st))

-----------------------------------------------------------------------------
(* Baseline Generator: generate_baselines / generate_random_team           *)

N_SIMULATIONS == 100

RETRY_CAP == 50

MIN_SAMPLES == 10

\* the k-element subsets of a set of swimmers
RECURSIVE Subsets(_, _)
Subsets(S, k) ==
    IF k = 0 THEN {{}}
    ELSE UNION {{T \cup {x} : T \in Subsets({y \in S : y > x}, k - 1)} : x \in S}

\* what random.sample can select from `eligible` (as ascending lists:
\* legality, time and band of the built team do not depend on the drawn order)
SampleFrom(eligible, e) ==
    IF Len(eligible) < 4 THEN {}
    ELSE IF e.gender_type = "Mixed"
    THEN {SortedSeq(m) \o SortedSeq(w) :
             m \in Subsets({s \in Range(eligible) : swimmers[s].gender = "M"}, 2),
             w \in Subsets({s \in Range(eligible) : swimmers[s].gender = "F"}, 2)}
    ELSE {SortedSeq(q) : q \in Subsets(Range(eligible), 4)}

SampleSpace(e) == SampleFrom(GenderFilter(get_eligible_swimmers(e), e), e)

\* what one attempt sees of the team it built: [band, time], None for no team
Drawn(team, e) ==
    IF team = None THEN None
    ELSE [band |-> age_group(team), time |-> calculate_time(team, e)]

\* the outcomes of one attempt of generate_random_team, over every selection
Draws(e) == {Drawn(create_valid_team(sel, e, events_assigned), e) : sel \in SampleSpace(e)}

\* team.calculate_time() of the teams generate_random_team can return
BandTimes(draws, target_age) ==
    {d.time : d \in {x \in draws \ {None} : x.band = target_age}}

\* a call can return None: nothing to select from, or every attempt may draw
\* a quartet that is illegal or of another band
CanMiss(draws, target_age) ==
    draws = {} \/ None \in draws \/ \E d \in draws \ {None} : d.band # target_age

\* "if len(times) >= 10" with 9 for 10
BaselineOfOneFewer(count, mean_time, std_time) ==
    IF count >= MIN_SAMPLES - 1
    THEN [mean_time |-> mean_time, std_time |-> std_time, sample_size |-> count]
    ELSE None

\* generate_baselines for one (event, band) once its loop has recorded
\* `count` times with the given mean and population standard deviation
BaselineOf(count, mean_time, std_time) ==
    IF count >= MIN_SAMPLES
    THEN [mean_time |-> mean_time, std_time |-> std_time, sample_size |-> count]
    ELSE None

MinOf(S) == CHOOSE x \in S : \A y \in S : x <= y

MaxOf(S) == CHOOSE x \in S : \A y \in S : x >= y

\* np.mean / np.std of `count` recorded times, for the samples followed:
\*   every recorded time is the fastest  -> mean = lo, std = 0
\*   every recorded time is the slowest  -> mean = hi, std = 0
\*   half of them each                   -> mean = midpoint, std = half the gap
Summaries(count, lo, hi) ==
    {BaselineOf(count, lo, 0), BaselineOf(count, hi, 0)}
    \cup (IF count % 2 = 0 /\ (lo + hi) % 2 = 0
          THEN {BaselineOf(count, (lo + hi) \div 2, (hi - lo) \div 2)}
          ELSE {})

\* the Baseline (or None) the band can end with after `count` recorded times
\* drawn from ts
SummariesOver(count, ts) ==
    IF count = 0 \/ ts = {} THEN {None} ELSE Summaries(count, MinOf(ts), MaxOf(ts))

\* the whole n_simulations loop of one (event, band), for the runs followed:
\* every round misses, or every round records a time
BandOutcomes(draws, target_age) ==
    (IF CanMiss(draws, target_age) THEN {None} ELSE {})
    \cup SummariesOver(N_SIMULATIONS, BandTimes(draws, target_age))

\* event_baselines[age_group] = Baseline(...) when there is one; the
\* dictionary of the event is entered in self.baselines with its first band
WithBand(b, n, band, o) ==
    IF o = None
    THEN (IF n \in DOMAIN b THEN b ELSE (n :> <<>>) @@ b)
    ELSE IF n \in DOMAIN b THEN [b EXCEPT ![n] = (band :> o) @@ @]
    ELSE (n :> (band :> o)) @@ b

\* "for _ in range(50)" with one more attempt
HitAttemptsOneMore(draws, target_age) ==
    IF CanMiss(draws, target_age) THEN {1, RETRY_CAP + 1} ELSE {1}

\* attempts a call of generate_random_team makes before it returns a team,
\* for the runs followed: the first attempt or the last
HitAttempts(draws, target_age) ==
    IF CanMiss(draws, target_age) THEN {1, RETRY_CAP} ELSE {1}

\* attempts a call of generate_random_team makes before it returns None:
\* none with fewer than four eligible, one when a mixed event lacks two of a
\* gender, else all of them
MissAttempts(e, draws) ==
    IF Len(GenderFilter(get_eligible_swimmers(e), e)) < 4 THEN 0
    ELSE IF draws = {} THEN 1
    ELSE RETRY_CAP

\* one call of generate_random_team: [attempts, hit]
RoundOutcomes(e, draws, target_age) ==
    {[attempts |-> k, hit |-> TRUE] :
        k \in IF BandTimes(draws, target_age) # {} THEN HitAttempts(draws, target_age) ELSE {}}
    \cup (IF CanMiss(draws, target_age)
          THEN {[attempts |-> MissAttempts(e, draws), hit |-> FALSE]}
          ELSE {})

-----------------------------------------------------------------------------
(* Inputs: rosters and event lists the runs are started on                 *)

Swimmer(gender, age, max_events, am, pm, excluded, times) ==
    [gender |-> gender, age |-> age, max_events |-> max_events,
     morning_available |-> am, afternoon_available |-> pm,
     excluded_strokes |-> excluded, times |-> times]

Event(number, session, gender_type, stroke_type, distance) ==
    [event_number |-> number, session |-> session, gender_type |-> gender_type,
     stroke_type |-> stroke_type, distance |-> distance]

\* times dictionary: 50 m entries for the strokes given (back, breast, fly,
\* free) and a 100 m freestyle entry; 0 = no entry
Times(back, breast, fly, free, free100) ==
    LET given == {p \in {<<"Back", 50, back>>, <<"Breast", 50, breast>>, <<"Fly", 50, fly>>,
                         <<"Free", 50, free>>, <<"Free", 100, free100>>} : p[3] # 0}
    IN  [k \in {<<p[1], p[2]>> : p \in given} |->
            (CHOOSE p \in given : <<p[1], p[2]>> = k)[3]]

\* Squads of five: everything about a swimmer except gender and max_events.
\* Specialists: one age, most swimmers lack some stroke.
Specialists ==
    << [age |-> 30, am |-> TRUE, pm |-> TRUE, excluded |-> {}, times |-> Times(30, 36, 36, 30, 70)],
       [age |-> 30, am |-> TRUE, pm |-> TRUE, excluded |-> {}, times |-> Times(0, 0, 0, 36, 72)],
       [age |-> 30, am |-> TRUE, pm |-> TRUE, excluded |-> {}, times |-> Times(0, 0, 34, 32, 74)],
       [age |-> 30, am |-> TRUE, pm |-> TRUE, excluded |-> {}, times |-> Times(36, 36, 34, 0, 76)],
       [age |-> 30, am |-> TRUE, pm |-> TRUE, excluded |-> {}, times |-> Times(36, 36, 0, 34, 0)] >>

\* AllRounders: one younger swimmer (another result band), swimmer 4 excludes
\* a stroke they hold a time for, swimmer 5 is away in the afternoon.
AllRounders ==
    << [age |-> 25, am |-> TRUE, pm |-> TRUE, excluded |-> {}, times |-> Times(30, 32, 34, 30, 0)],
       [age |-> 30, am |-> TRUE, pm |-> TRUE, excluded |-> {}, times |-> Times(32, 30, 36, 32, 70)],
       [age |-> 30, am |-> TRUE, pm |-> TRUE, excluded |-> {}, times |-> Times(34, 36, 30, 34, 72)],
       [age |-> 30, am |-> TRUE, pm |-> TRUE, excluded |-> {"Fly"}, times |-> Times(36, 34, 32, 36, 74)],
       [age |-> 30, am |-> TRUE, pm |-> FALSE, excluded |-> {}, times |-> Times(32, 32, 32, 38, 76)] >>

\* Sprinters: one swimmer per medley leg plus two sprinters, the faster one
\* away in the afternoon.
Sprinters ==
    << [age |-> 30, am |-> TRUE, pm |-> TRUE, excluded |-> {}, times |-> Times(30, 0, 0, 40, 0)],
       [age |-> 30, am |-> TRUE, pm |-> TRUE, excluded |-> {}, times |-> Times(0, 30, 0, 42, 0)],
       [age |-> 30, am |-> TRUE, pm |-> TRUE, excluded |-> {}, times |-> Times(0, 0, 30, 44, 0)],
       [age |-> 30, am |-> TRUE, pm |-> TRUE, excluded |-> {}, times |-> Times(0, 0, 0, 22, 0)],
       [age |-> 30, am |-> TRUE, pm |-> FALSE, excluded |-> {}, times |-> Times(0, 0, 0, 20, 0)] >>

\* Twins: swimmers 1 and 2 hold the same backstroke and breaststroke times
\* (medley orderings that tie), swimmer 5 swims freestyle only.
Twins ==
    << [age |-> 30, am |-> TRUE, pm |-> TRUE, excluded |-> {}, times |-> Times(30, 30, 0, 0, 0)],
       [age |-> 30, am |-> TRUE, pm |-> TRUE, excluded |-> {}, times |-> Times(30, 30, 0, 0, 0)],
       [age |-> 30, am |-> TRUE, pm |-> TRUE, excluded |-> {}, times |-> Times(0, 0, 30, 34, 0)],
       [age |-> 30, am |-> TRUE, pm |-> TRUE, excluded |-> {}, times |-> Times(0, 0, 32, 30, 0)],
       [age |-> 30, am |-> FALSE, pm |-> TRUE, excluded |-> {}, times |-> Times(0, 0, 0, 36, 0)] >>

Squads == {Specialists, AllRounders, Sprinters}

GenderPatterns == { <<"M", "M", "M", "M", "M">>, <<"M", "M", "F", "F", "M">>, <<"F", "F", "F", "F", "M">> }

MaxEventsPatterns == { <<2, 2, 1, 2, 1>>, <<1, 1, 1, 1, 1>>, <<2, 2, 2, 2, 2>> }

RostersOf(squads, genders, maxima) ==
    {[i \in 1..Len(sq) |->
         Swimmer(g[i], sq[i].age, m[i], sq[i].am, sq[i].pm, sq[i].excluded, sq[i].times)] :
        sq \in squads, g \in genders, m \in maxima}

Rosters == RostersOf(Squads, GenderPatterns, MaxEventsPatterns)

\* [gender_type, stroke_type, distance] of the events on the slate
Kinds == { <<"Men", "Medley", 50>>, <<"Men", "Free", 50>>, <<"Mixed", "Free", 50>>,
           <<"Mixed", "Medley", 50>>, <<"Women", "Free", 100>> }

\* a morning event followed by an afternoon event
EventLists ==
    { << Event(1, "AM", k1[1], k1[2], k1[3]), Event(2, "PM", k2[1], k2[2], k2[3]) >> :
         k1 \in Kinds, k2 \in Kinds }

\* Runs followed with the loop constants of the source: the sprinters as men
\* with two events each, a morning medley and an afternoon event.
RunRosters == RostersOf({Sprinters}, { <<"M", "M", "M", "M", "M">> }, { <<2, 2, 2, 2, 2>> })

RunEventLists ==
    { << Event(1, "AM", "Men", "Medley", 50), Event(2, "PM", k[1], k[2], k[3]) >> :
         k \in { <<"Men", "Free", 50>>, <<"Women", "Free", 100>> } }

\* Team Builder inputs: every squad, one slot, usage counters at 0 or with
\* swimmer 2 at the maximum.
BuilderRosters ==
    RostersOf(Squads \cup {Twins}, GenderPatterns, { <<1, 1, 1, 1, 1>> })

BuilderSlots ==
    { << Event(1, session, k[1], k[2], k[3]) >> : session \in {"AM", "PM"}, k \in Kinds }

BuilderUsage == { <<0, 0, 0, 0, 0>>, <<0, 1, 0, 0, 0>> }

-----------------------------------------------------------------------------
(* optimize(): the run as a state machine                                  *)

IterationBound == 3

StallBound == 1

MAX_ITERATIONS == 1000

STALL_LIMIT == 100

ChoiceBound == 2

EngineState == [solution |-> solution, swimmer_events |-> swimmer_events,
                events_assigned |-> events_assigned]

Op(kind, s, from, to, improved, mid) ==
    [kind |-> kind, swimmer |-> s, from |-> from, to |-> to, improved |-> improved, mid |-> mid]

SetEngine(st) ==
    /\ solution' = st.solution
    /\ swimmer_events' = st.swimmer_events
    /\ events_assigned' = st.events_assigned

\* OptimizationResult(): swimmer_event_counts is the dictionary in insertion
\* order, its keys the swimmers (their names are taken to differ)
OptimizationResult ==
    [assignments |-> <<>>, events_skipped |-> <<>>, warnings |-> <<>>,
     swimmer_event_counts |-> <<>>]

\* a constructed RelayOptimizer on one of the given inputs, about to start
\* at `at`, every Swimmer.events_assigned as given by `usage`
Started(rosters, lists, usage, at) ==
    /\ swimmers \in rosters
    /\ events \in lists
    /\ events_assigned \in usage
    /\ baselines = <<>>
    /\ solution = [n \in {events[i].event_number : i \in 1..Len(events)} |-> None]
    /\ swimmer_events = [s \in 1..Len(swimmers) |-> {}]
    /\ pc = at
    /\ event_index = 1
    /\ iteration = 0
    /\ no_improvement_count = 0
    /\ result = OptimizationResult
    /\ last_op = Op("init", NoSwimmer, NoEvent, NoEvent, FALSE,
                    [solution |-> solution, swimmer_events |-> swimmer_events,
                     events_assigned |-> events_assigned])
    /\ built = None
    /\ issues = [called |-> FALSE, list |-> <<>>]
    /\ cancel_requested = FALSE
    /\ band_index = 1
    /\ sim_round = 0
    /\ attempt = 0
    /\ times_recorded = 0
    /\ sample_counts = <<>>

\* the same with the roster already loaded: no row left to parse
Constructed(rosters, lists, usage, at) ==
    /\ Started(rosters, lists, usage, at)
    /\ row = <<>>
    /\ parsed = [called |-> FALSE, year |-> 0, swimmer |-> None]

Init == Constructed(Rosters, EventLists, { <<0, 0, 0, 0, 0>> }, "baselines")

\* the end of one pass of "for age_group in age_groups": on to the next band,
\* the next event, or the first pass over the events
NextBand ==
    IF band_index < Len(AGE_GROUPS)
    THEN band_index' = band_index + 1 /\ event_index' = event_index /\ pc' = pc
    ELSE /\ band_index' = 1
         /\ IF event_index < Len(events)
            THEN event_index' = event_index + 1 /\ pc' = pc
            ELSE event_index' = 1 /\ pc' = "phase1"

\* generate_baselines, one (event, band): the n_simulations loop and the
\* "if len(times) >= 10" that follows it
SampleBand ==
    /\ pc = "baselines"
    /\ \E o \in BandOutcomes(Draws(events[event_index]), AGE_GROUPS[band_index]) :
           baselines' = WithBand(baselines, events[event_index].event_number,
                                 AGE_GROUPS[band_index], o)
    /\ NextBand
    /\ last_op' = Op("baselines", NoSwimmer, NoEvent, events[event_index].event_number,
                     FALSE, EngineState)
    /\ UNCHANGED <<inputVars, engineVars, loopVars, roundVars, result, callerVars>>

\* the engine state is st from now on; the record of the operation that made it
Record(kind, to, done, st) ==
    /\ SetEngine(st)
    /\ last_op' = Op(kind, NoSwimmer, NoEvent, to, done, st)

\* "if team:" that also looks at what the operation before it did
InstallFoundByHistory(found, n) ==
    IF found.team # None /\ ~last_op.improved
    THEN Install(found.st, found.team, n) ELSE found.st

\* "if team: solution[n] = team; ..." / "else: solution[n] = None"
InstallFound(found, n) ==
    IF found.team # None THEN Install(found.st, found.team, n) ELSE found.st

\* one pass of the "First pass" loop body
Phase1Step ==
    /\ pc = "phase1"
    /\ \E found \in {find_best_team_for_event(events[event_index], EngineState)} :
           Record("phase1", events[event_index].event_number, found.team # None,
                  InstallFound(found, events[event_index].event_number))
    /\ IF event_index < Len(events)
       THEN event_index' = event_index + 1 /\ pc' = pc
       ELSE event_index' = 1 /\ pc' = "phase2"
    /\ UNCHANGED <<inputVars, loopVars, samplingVars, baselines, result, callerVars>>

\* one pass of the "Fill any gaps" loop body
Phase2Step ==
    /\ pc = "phase2"
    /\ \E team \in {IF solution[events[event_index].event_number] = None
                      THEN find_any_valid_team(events[event_index], EngineState)
                      ELSE None} :
           Record("phase2", events[event_index].event_number, team # None,
                  IF team # None
                  THEN Install(EngineState, team, events[event_index].event_number)
                  ELSE EngineState)
    /\ IF event_index < Len(events)
       THEN event_index' = event_index + 1 /\ pc' = pc
       ELSE event_index' = 1 /\ pc' = "phase3"
    /\ UNCHANGED <<inputVars, loopVars, samplingVars, baselines, result, callerVars>>

\* the bookkeeping of the improvement loop around try_improve_swimmer:
\* [count, stop] after an iteration that started as number `it` (0-based)
LoopControl(it, count, improved, cap, stall) ==
    IF improved
    THEN [count |-> 0, stop |-> it + 1 >= cap]
    ELSE [count |-> count + 1, stop |-> count + 1 > stall \/ it + 1 >= cap]

Phase3Control(improved, cap, stall) ==
    /\ iteration' = iteration + 1
    /\ \E ctl \in {LoopControl(iteration, no_improvement_count, improved, cap, stall)} :
           /\ no_improvement_count' = ctl.count
           /\ pc' = IF ctl.stop THEN "finalize" ELSE pc

Candidates == {s \in 1..Len(swimmers) : Cardinality(swimmer_events[s]) >= 1}

Attempted(s, r) == [swimmer |-> s, r |-> r]

\* try_improve_swimmer for "if not candidates: return False" and for every
\* swimmer of `choices` as the value of random.choice(candidates)
Improvements(choices) ==
    IF Candidates = {} THEN {Attempted(NoSwimmer, NoSwap(EngineState))}
    ELSE {Attempted(s, try_improve_swimmer(EngineState, s)) : s \in choices}

\* one iteration of the improvement loop under the given loop constants
Phase3Body(cap, stall, choices) ==
    /\ pc = "phase3"
    /\ \E a \in Improvements(choices) :
           /\ SetEngine(a.r.st)
           /\ last_op' = Op("phase3", a.swimmer, a.r.from, a.r.to, a.r.improved, a.r.mid)
           /\ Phase3Control(a.r.improved, cap, stall)
    /\ UNCHANGED <<inputVars, samplingVars, baselines, event_index, result, callerVars>>

Phase3Iteration == Phase3Body(IterationBound, StallBound, Candidates)

EventNames == <<"Event 1", "Event 2", "Event 3">>

\* TeamAssignment(event, team, age_group, expected_time, z_score)
Assignment(e, team) ==
    [event |-> e.event_number, team |-> team, age_group |-> age_group(team),
     expected_time |-> calculate_time(team, e), z_score |-> calculate_z_score(team, e)]

\* counts[key] = counts.get(key, 0) + 1
Counted(counts, s) ==
    IF \E i \in 1..Len(counts) : counts[i].swimmer = s
    THEN [i \in 1..Len(counts) |->
             IF counts[i].swimmer = s
             THEN [swimmer |-> s, count |-> counts[i].count + 1] ELSE counts[i]]
    ELSE Append(counts, [swimmer |-> s, count |-> 1])

\* "for swimmer in assignment.team.swimmers" of add_assignment
RECURSIVE CountedAll(_, _)
CountedAll(counts, members) ==
    IF members = <<>> THEN counts
    ELSE CountedAll(Counted(counts, Head(members)), Tail(members))

add_assignment(res, a) ==
    [res EXCEPT !.assignments = Append(@, a),
                !.swimmer_event_counts = CountedAll(@, a.team)]

add_skipped_event(res, event_name, reason) ==
    [res EXCEPT !.events_skipped = Append(@, [event_name |-> event_name, reason |-> reason])]

\* the finalize loop without its else branch (no skip record)
RECURSIVE FinalizeLoopAssignmentsOnly(_, _)
FinalizeLoopAssignmentsOnly(k, res) ==
    IF k > Len(events) THEN res
    ELSE IF solution[events[k].event_number] # None
    THEN FinalizeLoopAssignmentsOnly(k + 1,
             add_assignment(res, Assignment(events[k], solution[events[k].event_number])))
    ELSE FinalizeLoopAssignmentsOnly(k + 1, res)

\* "Convert solution to result" for the events from position k on
RECURSIVE FinalizeLoop(_, _)
FinalizeLoop(k, res) ==
    IF k > Len(events) THEN res
    ELSE IF solution[events[k].event_number] # None
    THEN FinalizeLoop(k + 1,
             add_assignment(res, Assignment(events[k], solution[events[k].event_number])))
    ELSE FinalizeLoop(k + 1,
             add_skipped_event(res, EventNames[events[k].event_number],
                               "Could not form valid team"))

Finalize ==
    /\ pc = "finalize"
    /\ result' = FinalizeLoop(1, result)
    /\ pc' = "done"
    /\ last_op' = Op("finalize", NoSwimmer, NoEvent, NoEvent, FALSE, EngineState)
    /\ UNCHANGED <<inputVars, engineVars, loopVars, samplingVars, baselines, event_index, callerVars>>

REPORTED_MAX == 6

\* "Check swimmer event limits": one issue per entry of swimmer_event_counts
\* above 6
QuotaIssues(res) ==
    [i \in 1..Len(SelectSeq(res.swimmer_event_counts, LAMBDA c : c.count > REPORTED_MAX)) |->
        [kind |-> "quota",
         swimmer |-> SelectSeq(res.swimmer_event_counts,
                               LAMBDA c : c.count > REPORTED_MAX)[i].swimmer,
         count |-> SelectSeq(res.swimmer_event_counts,
                             LAMBDA c : c.count > REPORTED_MAX)[i].count]]

\* "Check for duplicate age groups per event": one issue per assignment whose
\* event already has an assignment of the same age group before it
BandIssues(res) ==
    [i \in 1..Len(SelectSeq([k \in 1..Len(res.assignments) |-> k],
                            LAMBDA k : \E j \in 1..(k - 1) :
                                /\ res.assignments[j].event = res.assignments[k].event
                                /\ res.assignments[j].age_group = res.assignments[k].age_group)) |->
        [kind |-> "band",
         event |-> res.assignments[
                       SelectSeq([k \in 1..Len(res.assignments) |-> k],
                                 LAMBDA k : \E j \in 1..(k - 1) :
                                     /\ res.assignments[j].event = res.assignments[k].event
                                     /\ res.assignments[j].age_group
                                            = res.assignments[k].age_group)[i]].event]]

\* OptimizationResult.validate_constraints: the list it returns
validate_constraints(res) == QuotaIssues(res) \o BandIssues(res)

\* MainWindow.validate_teams on the Result of a finished run: the issues are
\* shown to the user, the Result is left as it is
ValidateTeams ==
    /\ pc = "done"
    /\ ~issues.called
    /\ issues' = [called |-> TRUE, list |-> validate_constraints(result)]
    /\ last_op' = Op("validate", NoSwimmer, NoEvent, NoEvent, FALSE, EngineState)
    /\ UNCHANGED <<inputVars, engineVars, loopVars, samplingVars, baselines, pc, event_index,
                   result, built, cancel_requested, importVars>>

\* the caller asks for the run to be cancelled while the improvement loop
\* runs: optimize() takes no cancellation input and run_optimizer creates its
\* ProgressDialog without a cancel_callback, so nothing of the engine changes
RequestCancel ==
    /\ pc = "phase3"
    /\ ~cancel_requested
    /\ cancel_requested' = TRUE
    /\ last_op' = Op("cancel", NoSwimmer, NoEvent, NoEvent, FALSE, EngineState)
    /\ UNCHANGED <<inputVars, engineVars, loopVars, samplingVars, baselines, pc, event_index,
                   result, built, issues, importVars>>

Next ==
    \/ SampleBand
    \/ Phase1Step
    \/ Phase2Step
    \/ Phase3Iteration
    \/ Finalize
    \/ ValidateTeams
    \/ RequestCancel

Spec == Init /\ [][Next]_vars

-----------------------------------------------------------------------------
(* The run with the loop constants of the source, baseline sampling one    *)
(* call of generate_random_team at a time                                  *)

InitRun == Constructed(RunRosters, RunEventLists, { <<0, 0, 0, 0, 0>> }, "sampling")

\* Samples followed: those that record at most MIN_SAMPLES times, in any
\* rounds, and the one that records a time in every round.
Followed(o) ==
    IF o.hit THEN times_recorded < MIN_SAMPLES \/ times_recorded = sim_round
    ELSE times_recorded <= MIN_SAMPLES

\* one pass of "for _ in range(n_simulations)": a call of generate_random_team
SampleRound ==
    /\ pc = "sampling"
    /\ sim_round < N_SIMULATIONS
    /\ \E o \in RoundOutcomes(events[event_index], Draws(events[event_index]),
                               AGE_GROUPS[band_index]) :
           /\ Followed(o)
           /\ attempt' = o.attempts
           /\ times_recorded' = IF o.hit THEN times_recorded + 1 ELSE times_recorded
    /\ sim_round' = sim_round + 1
    /\ last_op' = Op("round", NoSwimmer, NoEvent, events[event_index].event_number,
                     FALSE, EngineState)
    /\ UNCHANGED <<inputVars, engineVars, loopVars, baselines, pc, event_index, band_index,
                   sample_counts, result, callerVars>>

\* "if len(times) >= 10: event_baselines[age_group] = Baseline(...)" after
\* the last round of one (event, band)
EndBand ==
    /\ pc = "sampling"
    /\ sim_round = N_SIMULATIONS
    /\ \E o \in SummariesOver(times_recorded,
                               BandTimes(Draws(events[event_index]), AGE_GROUPS[band_index])) :
           baselines' = WithBand(baselines, events[event_index].event_number,
                                 AGE_GROUPS[band_index], o)
    /\ sample_counts' = Append(sample_counts,
                               [event |-> events[event_index].event_number,
                                band |-> AGE_GROUPS[band_index], count |-> times_recorded])
    /\ sim_round' = 0
    /\ times_recorded' = 0
    /\ NextBand
    /\ last_op' = Op("baselines", NoSwimmer, NoEvent, events[event_index].event_number,
                     FALSE, EngineState)
    /\ UNCHANGED <<inputVars, engineVars, loopVars, attempt, result, callerVars>>

\* Choices followed: every candidate in the first ChoiceBound iterations,
\* the first of the list after that.
RunChoices ==
    IF iteration < ChoiceBound THEN Candidates
    ELSE {s \in Candidates : \A x \in Candidates : s <= x}

RunIteration == Phase3Body(MAX_ITERATIONS, STALL_LIMIT, RunChoices)

NextRun == SampleRound \/ EndBand \/ Phase1Step \/ Phase2Step \/ RunIteration \/ Finalize

SpecRun == InitRun /\ [][NextRun]_vars

-----------------------------------------------------------------------------------------------------------------------------------------------------
(* The run on a club of eight: four freestyle sprinters, a slower          *)
(* freestyler, and one swimmer per remaining medley leg                    *)

\* Club: swimmers 1-4 sprint freestyle only, 1-3 in the morning only;
\* swimmer 5 is a slower freestyler; 6, 7 and 8 swim backstroke,
\* breaststroke and butterfly; swimmer 8 also holds a slow freestyle time.
Club ==
    << [age |-> 30, am |-> TRUE, pm |-> FALSE, excluded |-> {}, times |-> Times(0, 0, 0, 20, 0)],
       [age |-> 30, am |-> TRUE, pm |-> FALSE, excluded |-> {}, times |-> Times(0, 0, 0, 20, 0)],
       [age |-> 30, am |-> TRUE, pm |-> FALSE, excluded |-> {}, times |-> Times(0, 0, 0, 20, 0)],
       [age |-> 30, am |-> TRUE, pm |-> TRUE, excluded |-> {}, times |-> Times(0, 0, 0, 20, 0)],
       [age |-> 30, am |-> TRUE, pm |-> TRUE, excluded |-> {}, times |-> Times(0, 0, 0, 22, 0)],
       [age |-> 30, am |-> TRUE, pm |-> TRUE, excluded |-> {}, times |-> Times(18, 0, 0, 0, 0)],
       [age |-> 30, am |-> TRUE, pm |-> TRUE, excluded |-> {}, times |-> Times(0, 18, 0, 0, 0)],
       [age |-> 30, am |-> TRUE, pm |-> TRUE, excluded |-> {}, times |-> Times(0, 0, 18, 60, 0)] >>

ClubRosters ==
    RostersOf({Club}, { <<"M", "M", "M", "M", "M", "M", "M", "M">> },
              { <<1, 1, 1, 1, 1, 1, 1, 1>>, <<2, 2, 2, 2, 1, 1, 1, 1>>,
                <<1, 1, 1, 1, 1, 2, 2, 2>>, <<2, 2, 2, 2, 2, 2, 2, 2>> })

\* a morning freestyle relay, then an afternoon relay
ClubEventLists ==
    { << Event(1, "AM", "Men", "Free", 50), Event(2, "PM", "Men", k, 50) >> :
         k \in {"Free", "Medley"} }

InitClub == Constructed(ClubRosters, ClubEventLists, { <<0, 0, 0, 0, 0, 0, 0, 0>> }, "baselines")

SpecClub == InitClub /\ [][Next]_vars

-----------------------------------------------------------------------------
(* The run on a squad with more men than the first pass looks at: twenty   *)
(* freestyle men, one butterfly man, a backstroke and a breaststroke woman *)

FreestyleMan ==
    [age |-> 30, am |-> TRUE, pm |-> TRUE, excluded |-> {}, times |-> Times(0, 0, 0, 20, 0)]

ButterflyMan ==
    [age |-> 30, am |-> TRUE, pm |-> TRUE, excluded |-> {}, times |-> Times(0, 0, 40, 0, 0)]

BackstrokeWoman ==
    [age |-> 30, am |-> TRUE, pm |-> TRUE, excluded |-> {}, times |-> Times(30, 0, 0, 0, 0)]

BreaststrokeWoman ==
    [age |-> 30, am |-> TRUE, pm |-> TRUE, excluded |-> {}, times |-> Times(0, 32, 0, 0, 0)]

MenInSquad == TOP_MIXED + 1

\* the butterfly man, the only one who can swim that leg and the slowest
\* man by best time, is entered first, second, or last of the men
LargeSquads ==
    {[i \in 1..(MenInSquad + 2) |->
         IF i = k THEN ButterflyMan
         ELSE IF i <= MenInSquad THEN FreestyleMan
         ELSE IF i = MenInSquad + 1 THEN BackstrokeWoman ELSE BreaststrokeWoman] :
        k \in {1, 2, MenInSquad}}

LargeRosters ==
    RostersOf(LargeSquads,
              {[i \in 1..(MenInSquad + 2) |-> IF i <= MenInSquad THEN "M" ELSE "F"]},
              {[i \in 1..(MenInSquad + 2) |-> 1]})

LargeEventLists ==
    { << Event(1, session, "Mixed", "Medley", 50) >> : session \in {"AM", "PM"} }

InitLarge ==
    Constructed(LargeRosters, LargeEventLists, {[i \in 1..(MenInSquad + 2) |-> 0]}, "baselines")

SpecLarge == InitLarge /\ [][Next]_vars

-----------------------------------------------------------------------------
(* The run on the sprinters when two of them may swim three events and the *)
(* others one                                                              *)

MainstayRosters == RostersOf({Sprinters}, { <<"M", "M", "M", "M", "M">> }, { <<3, 3, 1, 1, 1>> })

InitMainstays == Constructed(MainstayRosters, EventLists, { <<0, 0, 0, 0, 0>> }, "baselines")

SpecMainstays == InitMainstays /\ [][Next]_vars

-----------------------------------------------------------------------------
(* The run on Swimmer records whose events_assigned the caller did not     *)
(* clear: RelayOptimizer(swimmers, events).optimize() with swimmer 2       *)
(* carrying one event from before                                          *)

InitCarried == Constructed(BuilderRosters, EventLists, BuilderUsage, "baselines")

SpecCarried == InitCarried /\ [][Next]_vars

-----------------------------------------------------------------------------
(* The Team Builder on its own: create_valid_team on any four swimmers     *)

InitBuilder == Constructed(BuilderRosters, BuilderSlots, BuilderUsage, "builder")

\* any four participants, in any order
Quartets == {q \in [1..4 -> 1..Len(swimmers)] : \A i, j \in 1..4 : i # j => q[i] # q[j]}

\* what the caller holds after create_valid_team(swimmers, event)
Built(q, e, team) ==
    [swimmers |-> q, event |-> e, team |-> team,
     time |-> IF team = None THEN Inf ELSE calculate_time(team, e)]

BuildTeam ==
    /\ pc = "builder"
    /\ \E q \in Quartets :
           built' = Built(q, events[1], create_valid_team(q, events[1], events_assigned))
    /\ pc' = "built"
    /\ last_op' = Op("build", NoSwimmer, NoEvent, events[1].event_number, FALSE, EngineState)
    /\ UNCHANGED <<inputVars, engineVars, loopVars, samplingVars, baselines, event_index, result,
                   issues, cancel_requested, importVars>>

NextBuilder == BuildTeam

SpecBuilder == InitBuilder /\ [][NextBuilder]_vars

-----------------------------------------------------------------------------
(* Roster import: data/importer.py, parse_swimmer_row_flexible on one row. *)
(* Text is a sequence of one-character strings.  A cell is [na, text]: na  *)
(* for the None / pandas NaN of an empty cell.  A row is the sequence of   *)
(* its [col, val] entries in the order of the dictionary.                  *)

\* str.strip(): the text between its first and last non-blank character
strip(t) ==
    IF \A i \in 1..Len(t) : t[i] = " " THEN <<>>
    ELSE SubSeq(t, MinOf({i \in 1..Len(t) : t[i] # " "}), MaxOf({i \in 1..Len(t) : t[i] # " "}))

\* str.split(c): the pieces between the occurrences of character c
RECURSIVE split(_, _)
split(t, c) ==
    IF c \notin Range(t) THEN <<t>>
    ELSE <<SubSeq(t, 1, MinOf({i \in 1..Len(t) : t[i] = c}) - 1)>>
             \o split(SubSeq(t, MinOf({i \in 1..Len(t) : t[i] = c}) + 1, Len(t)), c)

\* the number a text of decimal digits spells; -1 for any other text
RECURSIVE NatOf(_)
NatOf(t) ==
    LET DIGITS == <<"0", "1", "2", "3", "4", "5", "6", "7", "8", "9">>
        digit(c) == IF c \in Range(DIGITS) THEN (CHOOSE i \in 1..10 : DIGITS[i] = c) - 1 ELSE -1
    IN  IF t = <<>> THEN -1
        ELSE IF digit(t[Len(t)]) = -1 THEN -1
        ELSE IF Len(t) = 1 THEN digit(t[1])
        ELSE IF NatOf(SubSeq(t, 1, Len(t) - 1)) = -1 THEN -1
        ELSE NatOf(SubSeq(t, 1, Len(t) - 1)) * 10 + digit(t[Len(t)])

\* float(text) for unsigned decimal numerals ("26", "26.0", "26.", ".5"), as
\* an exact fraction; None stands for the ValueError of any other text
FloatOf(t) ==
    LET s == strip(t)
        point == IF "." \in Range(s) THEN MinOf({i \in 1..Len(s) : s[i] = "."}) ELSE 0
        whole == SubSeq(s, 1, point - 1)
        frac == SubSeq(s, point + 1, Len(s))
        fits(x) == x = <<>> \/ NatOf(x) >= 0
        value(x) == IF x = <<>> THEN 0 ELSE NatOf(x)
    IN  IF point = 0 THEN (IF NatOf(s) >= 0 THEN Rat(NatOf(s), 1) ELSE None)
        ELSE IF fits(whole) /\ fits(frac) /\ (whole # <<>> \/ frac # <<>>)
        THEN Rat(value(whole) * 10^Len(frac) + value(frac), 10^Len(frac))
        ELSE None

\* parse_time: "MM:SS.HH" as minutes * 60 + seconds, else plain seconds;
\* None for a text that is neither
parse_time(time_str) ==
    LET t == strip(time_str)
        parts == split(t, ":")
        minutes == FloatOf(parts[1])
        seconds == FloatOf(parts[2])
    IN  IF t = <<>> THEN None
        ELSE IF ":" \in Range(t) /\ Len(parts) = 2
        THEN (IF minutes = None \/ seconds = None THEN None
              ELSE Rat(minutes.n * 60 * seconds.d + seconds.n * minutes.d, minutes.d * seconds.d))
        ELSE FloatOf(t)

\* parse_date: the date of the first of the formats that strptime accepts
\* the text for; None when there is none
parse_date(date_str) ==
    LET t == strip(date_str)
        \* the formats in the order tried: separator and order of the fields
        formats == << [sep |-> "/", fields |-> <<"m", "d", "Y">>], [sep |-> "-", fields |-> <<"Y", "m", "d">>],
                      [sep |-> "-", fields |-> <<"m", "d", "Y">>], [sep |-> "/", fields |-> <<"d", "m", "Y">>],
                      [sep |-> "/", fields |-> <<"Y", "m", "d">>], [sep |-> "/", fields |-> <<"m", "d", "y">>],
                      [sep |-> "-", fields |-> <<"d", "m", "Y">>] >>
        \* %Y takes four digits, %y two, %m and %d one or two
        fits(kind, f) ==
            /\ NatOf(f) >= 0
            /\ kind = "Y" => Len(f) = 4
            /\ kind = "y" => Len(f) = 2
            /\ kind \in {"m", "d"} => Len(f) \in {1, 2}
        field(fmt, kind) == split(t, fmt.sep)[CHOOSE i \in 1..3 : fmt.fields[i] = kind]
        \* %y: 69-99 are 1969-1999, 00-68 are 2000-2068
        year(fmt) ==
            IF "Y" \in Range(fmt.fields) THEN NatOf(field(fmt, "Y"))
            ELSE IF NatOf(field(fmt, "y")) >= 69 THEN 1900 + NatOf(field(fmt, "y"))
            ELSE 2000 + NatOf(field(fmt, "y"))
        month(fmt) == NatOf(field(fmt, "m"))
        day(fmt) == NatOf(field(fmt, "d"))
        leap(y) == y % 4 = 0 /\ (y % 100 # 0 \/ y % 400 = 0)
        days(y, m) == IF m = 2 THEN (IF leap(y) THEN 29 ELSE 28)
                      ELSE IF m \in {4, 6, 9, 11} THEN 30 ELSE 31
        accepted(fmt) ==
            /\ Len(split(t, fmt.sep)) = 3
            /\ \A i \in 1..3 : fits(fmt.fields[i], split(t, fmt.sep)[i])
            /\ year(fmt) >= 1
            /\ month(fmt) \in 1..12
            /\ day(fmt) >= 1 /\ day(fmt) <= days(year(fmt), month(fmt))
        first == MinOf({k \in 1..Len(formats) : accepted(formats[k])})
    IN  IF \E k \in 1..Len(formats) : accepted(formats[k])
        THEN [year |-> year(formats[first]), month |-> month(formats[first]), day |-> day(formats[first])]
        ELSE None

\* parse_swimmer_row_flexible in the given year of date.today(): the Swimmer
\* of the row, None for a row it skips
parse_swimmer_row_flexible(r, today_year) ==
    LET UPPERCASE == <<"A", "B", "C", "D", "E", "F", "G", "H", "I", "J", "K", "L", "M",
                      "N", "O", "P", "Q", "R", "S", "T", "U", "V", "W", "X", "Y", "Z">>
        LOWERCASE == <<"a", "b", "c", "d", "e", "f", "g", "h", "i", "j", "k", "l", "m",
                      "n", "o", "p", "q", "r", "s", "t", "u", "v", "w", "x", "y", "z">>
        recase(t, from, to) ==
            SubSeq([i \in 1..Len(t) |->
                       IF t[i] \in Range(from) THEN to[CHOOSE j \in 1..26 : from[j] = t[i]] ELSE t[i]],
                   1, Len(t))
        lower(t) == recase(t, UPPERCASE, LOWERCASE)
        upper(t) == recase(t, LOWERCASE, UPPERCASE)
        \* "k in t" on strings
        holds(t, k) == \E i \in 1..(Len(t) - Len(k) + 1) : SubSeq(t, i, i + Len(k) - 1) = k
        \* find_column: the first column whose name holds one of the keywords,
        \* case-insensitively; 0 for None
        matches(i, keywords) ==
            r[i].col # <<>> /\ \E k \in Range(keywords) : holds(lower(r[i].col), lower(k))
        find_column(keywords) ==
            IF \E i \in 1..Len(r) : matches(i, keywords)
            THEN MinOf({i \in 1..Len(r) : matches(i, keywords)}) ELSE 0
        \* get_value: the stripped text of that cell; the default when there
        \* is no such column or the cell is None, NaN or ''
        value_at(c, default) ==
            IF c # 0 /\ ~r[c].val.na /\ r[c].val.text # <<>> THEN strip(r[c].val.text) ELSE default
        get_value(keywords, default) == value_at(find_column(keywords), default)

        UNKNOWN == <<"U", "n", "k", "n", "o", "w", "n">>
        first_column == get_value(<< <<"f", "i", "r", "s", "t">> >>, None)
        last_column == get_value(<< <<"l", "a", "s", "t">> >>, None)
        full_name == get_value(<< <<"n", "a", "m", "e">>, <<"s", "w", "i", "m", "m", "e", "r">>,
                                  <<"a", "t", "h", "l", "e", "t", "e">> >>, None)
        comma == MinOf({i \in 1..Len(full_name) : full_name[i] = ","})
        blank == MinOf({i \in 1..Len(full_name) : full_name[i] = " "})
        \* [first, last] after the full-name fallback
        names ==
            IF first_column # None /\ last_column # None
            THEN [first |-> first_column, last |-> last_column]
            ELSE IF full_name # None /\ "," \in Range(full_name)
            THEN [first |-> strip(SubSeq(full_name, comma + 1, Len(full_name))),
                  last |-> strip(SubSeq(full_name, 1, comma - 1))]
            ELSE IF full_name # None /\ " " \in Range(full_name)
            THEN [first |-> strip(SubSeq(full_name, 1, blank - 1)),
                  last |-> strip(SubSeq(full_name, blank + 1, Len(full_name)))]
            ELSE IF full_name # None
            THEN [first |-> UNKNOWN, last |-> full_name]
            ELSE [first |-> first_column, last |-> last_column]

        date_str == get_value(<< <<"d", "o", "b">> >>, None)
        age_str == get_value(<< <<"a", "g", "e">> >>, None)
        age == FloatOf(age_str).n \div FloatOf(age_str).d
        birth_date ==
            IF date_str # None /\ parse_date(date_str) # None THEN parse_date(date_str)
            ELSE IF age_str # None /\ FloatOf(age_str) # None /\ today_year - age >= 1
            THEN [year |-> today_year - age, month |-> 1, day |-> 1]
            ELSE [year |-> today_year - 30, month |-> 1, day |-> 1]

        gender_str == upper(get_value(<< <<"g", "e", "n", "d", "e", "r">> >>, <<"M">>))
        gender ==
            IF gender_str # <<>> /\ gender_str[1] \in {"F", "W"} THEN "F" ELSE "M"

        max_events_str == get_value(<< <<"m", "a", "x">>, <<"l", "i", "m", "i", "t">>,
                                       <<"m", "a", "x", " ", "e", "v", "e", "n", "t", "s">>,
                                       <<"e", "v", "e", "n", "t", " ", "l", "i", "m", "i", "t">> >>, None)
        asked == FloatOf(max_events_str).n \div FloatOf(max_events_str).d
        max_events ==
            IF max_events_str # None /\ FloatOf(max_events_str) # None
            THEN (IF asked < 1 THEN 1 ELSE IF asked > 6 THEN 6 ELSE asked)
            ELSE 6

        relay_str == get_value(<< <<"r", "e", "l", "a", "y">> >>, None)
        available ==
            relay_str \in { <<"1">>, <<"1", ".", "0">>, <<"t", "r", "u", "e">>, <<"y", "e", "s">>, <<"y">> }

        excluded_str == get_value(<< <<"e", "x", "c", "l", "u", "d", "e", "d">>, <<"c", "a", "n", "n", "o", "t">>,
                                     <<"e", "x", "c", "l", "u", "d", "e">> >>, None)
        pieces(sep) == {strip(p) : p \in {q \in Range(split(excluded_str, sep)) : strip(q) # <<>>}}
        separated ==
            IF "," \in Range(excluded_str) THEN pieces(",")
            ELSE IF ";" \in Range(excluded_str) THEN pieces(";")
            ELSE IF " " \in Range(excluded_str) THEN pieces(" ")
            ELSE {}
        excluded_strokes ==
            IF excluded_str = None THEN {}
            ELSE IF separated # {} THEN separated
            ELSE {strip(excluded_str)}

        \* the sixteen (column name, stroke, distance) entries
        time_columns ==
            {[expected_col |-> d \o <<" ">> \o s.word, stroke |-> s.stroke, distance |-> NatOf(d)] :
                d \in { <<"2", "5">>, <<"5", "0">>, <<"1", "0", "0">>, <<"2", "0", "0">> },
                s \in { [word |-> <<"b", "a", "c", "k">>, stroke |-> "Back"],
                        [word |-> <<"f", "l", "y">>, stroke |-> "Fly"],
                        [word |-> <<"f", "r", "e", "e">>, stroke |-> "Free"],
                        [word |-> <<"b", "r", "e", "a", "s", "t">>, stroke |-> "Breast"] }}
        named(i, expected_col) == r[i].col # <<>> /\ lower(expected_col) = strip(lower(r[i].col))
        found_col(expected_col) ==
            IF \E i \in 1..Len(r) : named(i, expected_col)
            THEN MinOf({i \in 1..Len(r) : named(i, expected_col)}) ELSE 0
        time_at(c) == IF c # 0 /\ ~r[c].val.na THEN parse_time(r[c].val.text) ELSE None
        time(tc) == time_at(found_col(tc.expected_col))
        times ==
            [key \in {<<tc.stroke, tc.distance>> :
                         tc \in {x \in time_columns : time(x) # None /\ time(x).n > 0}} |->
                time(CHOOSE tc \in time_columns : tc.stroke = key[1] /\ tc.distance = key[2])]
    IN  IF names.last = None THEN None
        ELSE IF relay_str = None THEN None
        ELSE [first_name |-> IF names.first = None THEN UNKNOWN ELSE names.first,
              last_name |-> names.last,
              birth_date |-> birth_date,
              gender |-> gender,
              max_events |-> max_events,
              morning_available |-> available,
              afternoon_available |-> available,
              excluded_strokes |-> excluded_strokes,
              times |-> times]

\* a cell holding text, and the empty cell (None / NaN)
Cell(t) == [na |-> FALSE, text |-> t]

EmptyCell == [na |-> TRUE, text |-> <<>>]

\* the columns of the rows handed to the importer, in the order of the
\* header, each with the cells it may hold; Absent for a header without it
Absent == [absent |-> TRUE]

RowColumns ==
    << [col |-> <<"L", "a", "s", "t", " ", "N", "a", "m", "e">>,
        cells |-> {Absent, Cell(<<"L", "e", "e">>)}],
       [col |-> <<"F", "i", "r", "s", "t", " ", "N", "a", "m", "e">>,
        cells |-> {Absent, Cell(<<"A", "n", "n">>)}],
       [col |-> <<"S", "w", "i", "m", "m", "e", "r">>,
        cells |-> {Absent, Cell(<<"L", "e", "e", ",", " ", "A", "n", "n">>),
                   Cell(<<"A", "n", "n", " ", "L", "e", "e">>)}],
       [col |-> <<"D", "O", "B">>,
        cells |-> {Absent, Cell(<<"1", "9", "9", "0", "-", "0", "5", "-", "1", "5">>)}],
       [col |-> <<"A", "g", "e">>,
        cells |-> {Absent, Cell(<<"3", "5">>)}],
       [col |-> <<"G", "e", "n", "d", "e", "r">>,
        cells |-> {Absent, Cell(<<"F">>)}],
       [col |-> <<"M", "a", "x", " ", "E", "v", "e", "n", "t", "s">>,
        cells |-> {Absent, Cell(<<"3">>), Cell(<<"9">>)}],
       [col |-> <<"R", "e", "l", "a", "y">>,
        cells |-> {Absent, EmptyCell, Cell(<<"1">>), Cell(<<"0">>)}],
       [col |-> <<"5", "0", " ", "F", "r", "e", "e">>,
        cells |-> {Absent, Cell(<<"2", "6", ".", "0">>), Cell(<<"1", ":", "0", "2", ".", "5">>)}],
       [col |-> <<"E", "x", "c", "l", "u", "d", "e", "d">>,
        cells |-> {Absent, Cell(<<"F", "l", "y", ",", " ", "B", "a", "c", "k">>)}] >>

\* the entry of column k holding that cell, nothing for a header without it
Entry(k, cell) == IF cell = Absent THEN <<>> ELSE <<[col |-> RowColumns[k].col, val |-> cell]>>

\* the rows over the columns from k on
RECURSIVE RowsFrom(_)
RowsFrom(k) ==
    IF k > Len(RowColumns) THEN {<<>>}
    ELSE {Entry(k, cell) \o rest : cell \in RowColumns[k].cells, rest \in RowsFrom(k + 1)}

Rows == RowsFrom(1)

\* the years the import may run in
Years == {2025, 2026}

\* before any roster is loaded: no swimmers, no events, one row to parse
InitImport ==
    /\ Started({ <<>> }, { <<>> }, { <<>> }, "import")
    /\ row \in Rows
    /\ parsed = [called |-> FALSE, year |-> 0, swimmer |-> None]

\* import_swimmers_csv / import_swimmers_excel: one row of the file parsed
ParseRow ==
    /\ pc = "import"
    /\ \E year \in Years :
           parsed' = [called |-> TRUE, year |-> year, swimmer |-> parse_swimmer_row_flexible(row, year)]
    /\ pc' = "imported"
    /\ UNCHANGED <<inputVars, engineVars, loopVars, samplingVars, baselines, event_index, result,
                   last_op, built, issues, cancel_requested, row>>

SpecImport == InitImport /\ [][ParseRow]_vars

-----------------------------------------------------------------------------
(* Properties of the run                                                   *)

AssignmentsOf(s) ==
    {k \in 1..Len(result.assignments) : s \in Range(result.assignments[k].team)}

\* C1: in the returned Result, no participant is a member of more assigned
\* teams than their max_events.
C1_ResultWithinQuota ==
    pc = "done" =>
        \A s \in 1..Len(swimmers) : Cardinality(AssignmentsOf(s)) <= swimmers[s].max_events

CountersWithin(st) ==
    \A s \in 1..Len(swimmers) :
        /\ Cardinality(st.swimmer_events[s]) <= swimmers[s].max_events
        /\ st.events_assigned[s] = Cardinality(st.swimmer_events[s])

\* C2: once an engine operation has completed (a Phase 1 install, a gap fill,
\* the removal inside a swap, the addition that ends it, a whole iteration),
\* every usage counter is at most the participant's max_events.
C2_CountersWithinQuota ==
    pc \in {"phase1", "phase2", "phase3", "finalize", "done"} =>
        CountersWithin(EngineState) /\ CountersWithin(last_op.mid)

TeamMeetsSlot(team, e) ==
    /\ \A i \in 1..Len(team) : available_for(team[i], e.session)
    /\ e.gender_type = "Men" => CountGender(team, "M") = Len(team)
    /\ e.gender_type = "Women" => CountGender(team, "F") = Len(team)
    /\ e.gender_type = "Mixed" => CountGender(team, "M") = 2 /\ CountGender(team, "F") = 2
    /\ Len(team) = 4
    /\ \A i \in 1..Len(team) :
           /\ get_strokes(e)[i] \notin swimmers[team[i]].excluded_strokes
           /\ <<get_strokes(e)[i], e.distance>> \in DOMAIN swimmers[team[i]].times

\* C3: every team in the solution map, and every team of the Result, meets
\* its slot's availability, gender-composition and stroke constraints.
C3_TeamsMeetHardConstraints ==
    /\ \A n \in DOMAIN solution :
           solution[n] # None => TeamMeetsSlot(solution[n], EventByNumber(n))
    /\ \A k \in 1..Len(result.assignments) :
           TeamMeetsSlot(result.assignments[k].team, EventByNumber(result.assignments[k].event))

\* a swap has just succeeded and every slot holds a team, one of them a medley
C3_Witness ==
    /\ last_op.kind = "phase3"
    /\ last_op.improved
    /\ \A n \in DOMAIN solution : solution[n] # None
    /\ \E i \in 1..Len(events) : events[i].stroke_type = "Medley"

\* C4: at the end of the run the Team Builder, run again on each assigned
\* team with the final usage counters, reports the team legal.
C4_RevalidationLegal ==
    pc = "done" =>
        \A k \in 1..Len(result.assignments) :
            LET a == result.assignments[k]
            IN  /\ create_valid_team(a.team, EventByNumber(a.event), events_assigned) # None
                /\ validate(a.team, EventByNumber(a.event), events_assigned)

MembersByUsage(n) == {s \in 1..Len(swimmers) : n \in swimmer_events[s]}

SwapDone == last_op.kind = "phase3" /\ last_op.from # NoEvent

\* C5: after a Phase 3 swap each of the two touched slots is UNFILLED or holds
\* a team of the slot's membership as it stands after the swap.
C5_SwapLeavesValidatedTeams ==
    SwapDone =>
        \A n \in {last_op.from, last_op.to} :
            \/ solution[n] = None
            \/ /\ Range(solution[n]) = MembersByUsage(n)
               /\ TeamMeetsSlot(solution[n], EventByNumber(n))

\* C6: finalize emits exactly one record per slot: an Assignment when the
\* solution holds a team for it, a skip record otherwise.
C6_OneRecordPerSlot ==
    pc = "done" =>
        /\ Len(result.assignments) + Len(result.events_skipped) = Len(events)
        /\ \A i \in 1..Len(events) :
               LET n == events[i].event_number
                   as == {k \in 1..Len(result.assignments) : result.assignments[k].event = n}
                   sk == {k \in 1..Len(result.events_skipped) :
                             result.events_skipped[k].event_name = EventNames[n]}
               IN  IF solution[n] # None
                   THEN Cardinality(as) = 1 /\ sk = {}
                        /\ \A k \in as : result.assignments[k].team = solution[n]
                   ELSE as = {} /\ Cardinality(sk) = 1

\* a finished run with one slot assigned and the other skipped
C6_Witness ==
    /\ pc = "done"
    /\ Len(result.assignments) = 1
    /\ Len(result.events_skipped) = 1

-----------------------------------------------------------------------------
(* Properties of the run with the loop constants of the source             *)

\* steps optimize() can still take from the point pc names on: the passes
\* of the loops over events that are left, the iterations the cap leaves,
\* the conversion of the solution
StepsLeft(at) ==
    IF at = "phase1" THEN (Len(events) - event_index + 1) + Len(events) + MAX_ITERATIONS + 1
    ELSE IF at = "phase2" THEN (Len(events) - event_index + 1) + MAX_ITERATIONS + 1
    ELSE IF at = "phase3" THEN (MAX_ITERATIONS - iteration) + 1
    ELSE IF at = "finalize" THEN 1
    ELSE 0

\* calls of generate_random_team and band summaries generate_baselines can
\* still make: the rest of this band, every band and event after it
SamplingLeft ==
    (N_SIMULATIONS - sim_round) + 1
    + ((Len(AGE_GROUPS) - band_index)
       + (Len(events) - event_index) * Len(AGE_GROUPS)) * (N_SIMULATIONS + 1)

\* a bound on the steps a run has left
RunMeasure ==
    IF pc = "sampling" THEN SamplingLeft + 2 * Len(events) + MAX_ITERATIONS + 1
    ELSE StepsLeft(pc)

\* C7: every run of optimize terminates, reaching finalize and returning a
\* Result: each step of a run lowers a bound on the steps it has left, the
\* bound is 0 only once the Result is returned, Phase 3 executes at most 1000
\* iterations, and baseline sampling makes at most 100 rounds of at most 50
\* attempts each for every (slot, band).
C7_RunTerminates ==
    [][/\ RunMeasure' < RunMeasure
       /\ RunMeasure' >= 0
       /\ RunMeasure' = 0 <=> pc' = "done"
       /\ pc' = "done" => Len(result'.assignments) + Len(result'.events_skipped) = Len(events)
       /\ iteration' <= MAX_ITERATIONS
       /\ sim_round' <= N_SIMULATIONS
       /\ attempt' <= RETRY_CAP
       /\ Len(sample_counts') <= Len(AGE_GROUPS) * Len(events)]_vars

\* a finished run: every (slot, band) sampled, one of them with rounds that
\* recorded a time and rounds that used up their attempts, and an improvement
\* loop that went on past its first non-improving stretch
C7_Witness ==
    /\ pc = "done"
    /\ Len(sample_counts) = Len(AGE_GROUPS) * Len(events)
    /\ \E k \in 1..Len(sample_counts) :
           sample_counts[k].count > 0 /\ sample_counts[k].count < N_SIMULATIONS
    /\ iteration > STALL_LIMIT + 1

NoUsage == [s \in 1..Len(swimmers) |-> 0]

\* the quartets of the slot's pool that the Team Builder accepts into the band
LegalQuartets(e, band) ==
    {sel \in SampleSpace(e) :
        /\ create_valid_team(sel, e, NoUsage) # None
        /\ age_group(create_valid_team(sel, e, NoUsage)) = band}

TeamsIn(e, band) == {create_valid_team(sel, e, NoUsage) : sel \in LegalQuartets(e, band)}

NoBaselineFor(e, band) ==
    /\ band \notin DOMAIN baselines[e.event_number]
    /\ \A team \in TeamsIn(e, band) : calculate_z_score(team, e) = Zero

\* generate_baselines has just returned
BaselinesGenerated == pc = "phase1" /\ event_index = 1 /\ last_op.kind = "baselines"

\* C10 as stated: after generate_baselines, a (slot, band) with fewer than
\* 10 legal quartets in the pool has no Baseline, and the z-score of every
\* team of that slot in that band is 0.
C10_FewQuartetsNoBaseline ==
    BaselinesGenerated =>
        \A i \in 1..Len(events) : \A b \in 1..Len(AGE_GROUPS) :
            Cardinality(LegalQuartets(events[i], AGE_GROUPS[b])) < 10 =>
                NoBaselineFor(events[i], AGE_GROUPS[b])

\* C10, amended: after generate_baselines, a (slot, band) whose sampling
\* recorded fewer than 10 times (in particular one with no legal quartet in
\* the band) has no Baseline, and the z-score of every team of that slot in
\* that band is 0.
C10_FewSamplesNoBaseline ==
    BaselinesGenerated =>
        /\ Len(sample_counts) = Len(AGE_GROUPS) * Len(events)
        /\ \A k \in 1..Len(sample_counts) :
               sample_counts[k].count < 10 =>
                   NoBaselineFor(EventByNumber(sample_counts[k].event), sample_counts[k].band)
        /\ \A k \in 1..Len(sample_counts) :
               LegalQuartets(EventByNumber(sample_counts[k].event), sample_counts[k].band) = {}
                   => sample_counts[k].count = 0

\* generate_baselines has returned and a band with legal quartets recorded
\* between one and nine times
C10_Witness ==
    /\ BaselinesGenerated
    /\ \E k \in 1..Len(sample_counts) :
           /\ sample_counts[k].count \in 1..9
           /\ LegalQuartets(EventByNumber(sample_counts[k].event), sample_counts[k].band) # {}

-----------------------------------------------------------------------------
(* Properties of the Team Builder                                          *)

\* every participant covers the stroke of their leg
Covers(q, strokes, e) ==
    \A i \in 1..4 : /\ strokes[i] \notin swimmers[q[i]].excluded_strokes
                     /\ <<strokes[i], e.distance>> \in DOMAIN swimmers[q[i]].times

LegTimes(q, strokes, e) ==
    swimmers[q[1]].times[<<strokes[1], e.distance>>] + swimmers[q[2]].times[<<strokes[2], e.distance>>]
    + swimmers[q[3]].times[<<strokes[3], e.distance>>] + swimmers[q[4]].times[<<strokes[4], e.distance>>]

LegalOrderings(q, e) ==
    {k \in 1..Len(PermIndex4) : Covers(Reordered(q, k), <<"Back", "Breast", "Fly", "Free">>, e)}

OrderingTime(q, k, e) == LegTimes(Reordered(q, k), <<"Back", "Breast", "Fly", "Free">>, e)

\* C8: for a medley slot and any four participants the Team Builder returns
\* no team iff none of the 24 orderings has every participant covering the
\* stroke of their leg; otherwise it returns a legal ordering of minimum
\* aggregate time, the first in enumeration order among those tied at it.
C8_MedleyOrderingOptimal ==
    (pc = "built" /\ built.event.stroke_type = "Medley") =>
        /\ Len(PermIndex4) = 24
        /\ IF LegalOrderings(built.swimmers, built.event) = {}
           THEN built.team = None
           ELSE \E k \in LegalOrderings(built.swimmers, built.event) :
                    /\ built.team = Reordered(built.swimmers, k)
                    /\ built.time = OrderingTime(built.swimmers, k, built.event)
                    /\ \A j \in LegalOrderings(built.swimmers, built.event) :
                           \/ OrderingTime(built.swimmers, k, built.event)
                                  < OrderingTime(built.swimmers, j, built.event)
                           \/ /\ OrderingTime(built.swimmers, k, built.event)
                                     = OrderingTime(built.swimmers, j, built.event)
                              /\ k <= j

\* a medley team built from a quartet with two legal orderings tied at the
\* minimum and a slower legal ordering enumerated before them
C8_Witness ==
    /\ pc = "built"
    /\ built.event.stroke_type = "Medley"
    /\ built.team # None
    /\ \E j, k \in LegalOrderings(built.swimmers, built.event) :
           /\ j # k
           /\ OrderingTime(built.swimmers, j, built.event) = built.time
           /\ OrderingTime(built.swimmers, k, built.event) = built.time
    /\ \E j \in LegalOrderings(built.swimmers, built.event) :
           /\ OrderingTime(built.swimmers, j, built.event) > built.time
           /\ \A k \in LegalOrderings(built.swimmers, built.event) :
                  OrderingTime(built.swimmers, k, built.event) = built.time => j < k

UniformStrokes == <<"Free", "Free", "Free", "Free">>

TwoAndTwo(q) ==
    /\ Cardinality({i \in 1..4 : swimmers[q[i]].gender = "M"}) = 2
    /\ Cardinality({i \in 1..4 : swimmers[q[i]].gender = "F"}) = 2

\* the team is the quartet in the given order, its time the sum of the four
AsGiven(b) ==
    b.team # None =>
        b.team = b.swimmers /\ b.time = LegTimes(b.swimmers, UniformStrokes, b.event)

-----------------------------------------------------------------------------
(* Properties of the scoring                                               *)

\* the (swimmer, event) pairs for which the next Phase 3 iteration can call
\* estimate_swimmer_contribution: the swimmer is a candidate with a worst
\* event, the event is one they are not in and could join
EstimatesCalled ==
    {p \in (1..Len(swimmers)) \X (1..Len(events)) :
        /\ p[1] \in Candidates
        /\ find_worst_event_for_swimmer(p[1], EngineState) # NoEvent
        /\ events[p[2]].event_number \notin swimmer_events[p[1]]
        /\ can_swimmer_join_event(p[1], events[p[2]], EngineState)}

\* C11: no computation of a run divides by a Baseline standard deviation of
\* zero: the z-score of every installed team and every standalone estimate
\* Phase 3 is about to compute is a finite number, also when the Baseline
\* used has std 0.
C11_NoDivisionByZeroStd ==
    pc = "phase3" =>
        /\ \A i \in 1..Len(events) :
               solution[events[i].event_number] # None =>
                   calculate_z_score(solution[events[i].event_number], events[i]).d # 0
        /\ \A p \in EstimatesCalled :
               estimate_swimmer_contribution(p[1], events[p[2]]).d # 0

-----------------------------------------------------------------------------
(* Properties of the failure handling                                      *)

\* no four participants of the roster, in any order, form a team that meets
\* the slot's session, gender-composition and stroke constraints
Unsatisfiable(e) == \A q \in Quartets : ~TeamMeetsSlot(q, e)

\* the operations of the engine that raise are not reached: Team() is built
\* on four swimmers only, no leg time that is compared or summed is None
NothingRaises ==
    \A n \in DOMAIN solution :
        solution[n] # None =>
            /\ Len(solution[n]) = 4
            /\ \A i \in 1..4 :
                   has_time_for(solution[n][i], get_strokes(EventByNumber(n))[i],
                                EventByNumber(n).distance)

SkipRecordsOf(e) ==
    {k \in 1..Len(result.events_skipped) :
        result.events_skipped[k].event_name = EventNames[e.event_number]}

\* C12: on an input with a slot that cannot be given a legal team, optimize
\* does not raise, every slot is processed through every phase (the run ends
\* with a record for every slot), and the unsatisfiable slot is in the
\* returned Result as a skip record and not as an Assignment.
C12_UnsatisfiableSlotIsSkipped ==
    (\E i \in 1..Len(events) : Unsatisfiable(events[i])) =>
        /\ NothingRaises
        /\ \A i \in 1..Len(events) :
               Unsatisfiable(events[i]) => solution[events[i].event_number] = None
        /\ pc = "done" =>
               /\ Len(result.assignments) + Len(result.events_skipped) = Len(events)
               /\ \A i \in 1..Len(events) :
                      Unsatisfiable(events[i]) =>
                          /\ Cardinality(SkipRecordsOf(events[i])) = 1
                          /\ \A k \in 1..Len(result.assignments) :
                                 result.assignments[k].event # events[i].event_number

\* a finished run whose first slot is unsatisfiable although four swimmers
\* are eligible by session and stroke, and whose second slot got a team
C12_Witness ==
    /\ pc = "done"
    /\ Unsatisfiable(events[1])
    /\ Len(get_eligible_swimmers(events[1])) >= 4
    /\ Cardinality(SkipRecordsOf(events[1])) = 1
    /\ \E k \in 1..Len(result.assignments) : result.assignments[k].event = events[2].event_number

\* the input holds a mixed slot and the roster has no participant of one gender
MixedSlotWithoutOneGender ==
    /\ \E i \in 1..Len(events) : events[i].gender_type = "Mixed"
    /\ \/ CountGender([s \in 1..Len(swimmers) |-> s], "M") = 0
       \/ CountGender([s \in 1..Len(swimmers) |-> s], "F") = 0

\* C13: on an input with a mixed slot and a roster without participants of
\* one gender, optimize reports a precondition failure before any work: no
\* baseline is sampled, no slot is processed, and the Result never lists the
\* mixed slot as a slot skipped at runtime.
C13_PreconditionFailureBeforeWork ==
    MixedSlotWithoutOneGender =>
        /\ last_op.kind = "init"
        /\ baselines = <<>>
        /\ \A i \in 1..Len(events) :
               events[i].gender_type = "Mixed" => SkipRecordsOf(events[i]) = {}

-----------------------------------------------------------------------------
(* Properties of the validation pass                                       *)

QuotaWarned(list, s) ==
    \E k \in 1..Len(list) : list[k].kind = "quota" /\ list[k].swimmer = s

\* C14: the validation pass over the finalized Result yields a quota warning
\* for exactly the participants whose number of Assignments exceeds their
\* own max_events, and these warnings are in the Result's warnings list.
C14_QuotaWarningsAttached ==
    issues.called =>
        \A s \in 1..Len(swimmers) :
            /\ QuotaWarned(issues.list, s)
                   <=> Cardinality(AssignmentsOf(s)) > swimmers[s].max_events
            /\ QuotaWarned(result.warnings, s)
                   <=> Cardinality(AssignmentsOf(s)) > swimmers[s].max_events

-----------------------------------------------------------------------------
(* Properties of the assignment phases as functions of their input         *)

\* the engine state optimize() starts the first pass on
EmptyEngine ==
    [solution |-> [n \in EventNumbers |-> None],
     swimmer_events |-> [s \in 1..Len(swimmers) |-> {}],
     events_assigned |-> [s \in 1..Len(swimmers) |-> 0]]

\* a second execution of the first pass over the first k events, computed
\* from the roster, the event list and the baselines alone
RECURSIVE FirstPass(_)
FirstPass(k) ==
    IF k = 0 THEN EmptyEngine
    ELSE InstallFound(find_best_team_for_event(events[k], FirstPass(k - 1)),
                      events[k].event_number)

InstallIf(st, team, n) == IF team # None THEN Install(st, team, n) ELSE st

GapFilled(st, e) ==
    IF st.solution[e.event_number] = None
    THEN InstallIf(st, find_any_valid_team(e, st), e.event_number)
    ELSE st

\* a second execution of both passes, the gap fill over the first k events
RECURSIVE SecondPass(_)
SecondPass(k) ==
    IF k = 0 THEN FirstPass(Len(events)) ELSE GapFilled(SecondPass(k - 1), events[k])

\* what a second execution has reached at the point this one is at
Replayed ==
    IF pc = "phase1" THEN FirstPass(event_index - 1)
    ELSE IF pc = "phase2" THEN SecondPass(event_index - 1)
    ELSE SecondPass(Len(events))

\* the same solution map and the same usage counters, entry by entry
SameEngine(a, b) ==
    /\ \A n \in EventNumbers : a.solution[n] = b.solution[n]
    /\ \A s \in 1..Len(swimmers) :
           /\ a.swimmer_events[s] = b.swimmer_events[s]
           /\ a.events_assigned[s] = b.events_assigned[s]

Marked == Rat(1, 10)

Negated(a) == Rat(-a.n, a.d)

\* the slots whose team holds the swimmer
HeldSlots(s, st) ==
    {n \in DOMAIN st.solution : st.solution[n] # None /\ s \in Range(st.solution[n])}

\* the held slots in which the swimmer's contribution is markedly negative
MarkedlyNegative(s, st) ==
    {n \in HeldSlots(s, st) :
        Lt(calculate_swimmer_contribution(s, EventByNumber(n), st), Negated(Marked))}

\* the slots the swimmer does not hold, may join, and would score markedly
\* positive in (a finite estimate), by more than the threshold above the
\* contribution in slot `from`
MarkedlyPositive(s, st, from) ==
    {n \in DOMAIN st.solution \ HeldSlots(s, st) :
        /\ can_swimmer_join_event(s, EventByNumber(n), st)
        /\ Gt(estimate_swimmer_contribution(s, EventByNumber(n)), Marked)
        /\ estimate_swimmer_contribution(s, EventByNumber(n)).d # 0
        /\ Gt(Sub(estimate_swimmer_contribution(s, EventByNumber(n)),
                  calculate_swimmer_contribution(s, EventByNumber(from), st)),
              Rat(1, 100))}

\* the scenario: the swimmer is at their configured maximum, the usage
\* bookkeeping agrees with the teams, `from` is the one held slot with a
\* markedly negative contribution and `to` the one slot to move to
AtMaximumScenario(s, st, from, to) ==
    /\ s \in 1..Len(swimmers)
    /\ HeldSlots(s, st) = st.swimmer_events[s]
    /\ Cardinality(st.swimmer_events[s]) = swimmers[s].max_events
    /\ st.events_assigned[s] = swimmers[s].max_events
    /\ MarkedlyNegative(s, st) = {from}
    /\ MarkedlyPositive(s, st, from) = {to}

\* C17: when Phase 3 examines a participant who is at their maximum, holds
\* one slot with a markedly negative contribution and has one slot to join
\* with a markedly positive estimate, the iteration swaps them: afterwards
\* they are out of the former slot's team, in the latter slot's team, and
\* their usage is what it was.
C17_SwapAtMaximum ==
    [][\A from, to \in DOMAIN solution :
           (/\ pc = "phase3"
            /\ iteration' = iteration + 1
            /\ AtMaximumScenario(last_op'.swimmer, EngineState, from, to)) =>
               /\ solution'[from] = None \/ last_op'.swimmer \notin Range(solution'[from])
               /\ solution'[to] # None
               /\ last_op'.swimmer \in Range(solution'[to])
               /\ Cardinality(swimmer_events'[last_op'.swimmer])
                      = Cardinality(swimmer_events[last_op'.swimmer])
               /\ last_op'.improved]_vars

\* ---------------------------------------------------------------------
\* Properties of the gap fill
\* ---------------------------------------------------------------------

\* the eligible swimmers of the slot whose usage is below their maximum
UnderQuotaPool(e, st) ==
    SelectSeq(GenderFilter(get_eligible_swimmers(e), e), LAMBDA s : Under(s, st))

\* the quartets of that pool that are legal for the slot in some leg order
LegalUnderQuota(e, st) ==
    {q \in SampleFrom(UnderQuotaPool(e, st), e) :
        \E k \in 1..Len(PermIndex4) : TeamMeetsSlot(Reordered(q, k), e)}

\* C16: when the gap fill comes to a slot that is UNFILLED and a legal
\* quartet exists among the eligible swimmers under their maximum, it
\* installs a legal team in the slot; the slot stays UNFILLED only if there is
\* no such quartet.
C16_GapFillFindsLegalQuartet ==
    [][(/\ pc = "phase2"
        /\ solution[events[event_index].event_number] = None
        /\ LegalUnderQuota(events[event_index], EngineState) # {}) =>
           /\ solution'[events[event_index].event_number] # None
           /\ TeamMeetsSlot(solution'[events[event_index].event_number],
                            events[event_index])]_vars

\* ---------------------------------------------------------------------
\* Properties of cancellation
\* ---------------------------------------------------------------------

\* the caller has asked for cancellation and an improvement iteration has
\* been completed since: the loop is at an iteration boundary after the request
CancelSeenAtBoundary ==
    /\ cancel_requested
    /\ pc = "phase3"
    /\ last_op.kind = "phase3"

\* C19: once the caller has requested cancellation during Phase 3, the engine
\* stops at the next iteration boundary, running no further iteration, and
\* the Result it returns holds a record for every slot of the solution it
\* had then.
C19_CancelStopsAtBoundary ==
    [][/\ CancelSeenAtBoundary => (iteration' = iteration /\ pc' # "phase3")
       /\ (cancel_requested /\ pc' = "done") =>
              /\ Len(result'.assignments)
                     = Cardinality({n \in DOMAIN solution : solution[n] # None})
              /\ \A k \in 1..Len(result'.assignments) :
                     result'.assignments[k].team = solution[result'.assignments[k].event]]_vars

\* ---------------------------------------------------------------------
\* Properties of the stall limit
\* ---------------------------------------------------------------------

\* C20: Phase 3 stops as soon as STALL_LIMIT consecutive iterations have
\* reported no improvement, so an iteration is executed only while fewer than
\* STALL_LIMIT consecutive non-improving ones precede it; an improving
\* iteration resets the consecutive count to zero, any other adds one to it.
C20_StallLimit ==
    [][(pc = "phase3" /\ iteration' = iteration + 1) =>
           /\ no_improvement_count < STALL_LIMIT
           /\ no_improvement_count' = IF last_op'.improved THEN 0
                                      ELSE no_improvement_count + 1
           /\ no_improvement_count' = STALL_LIMIT => pc' # "phase3"]_vars

-----------------------------------------------------------------------------
(* Properties of the import                                                *)

\* the row has the k-th of the columns
HasColumnOf(k) == \E i \in 1..Len(row) : row[i].col = RowColumns[k].col

\* the row has a last-name column or a full-name column
UsableName == HasColumnOf(1) \/ HasColumnOf(3)

\* a last name and a 50 m freestyle time of 26.0, and no first-name,
\* full-name, birth-date, age, gender, max-events or availability column
OnlyLastNameAndTime ==
    /\ HasColumnOf(1)
    /\ \E i \in 1..Len(row) : row[i].col = RowColumns[9].col /\ row[i].val = Cell(<<"2", "6", ".", "0">>)
    /\ \A k \in {2, 3, 4, 5, 6, 7, 8} : ~HasColumnOf(k)

\* the availability column is there and its cell is empty
BlankAvailability == \E i \in 1..Len(row) : row[i].col = RowColumns[8].col /\ row[i].val.na

\* C18: parse_swimmer_row_flexible keeps a row that has a last name and a
\* time but no first-name, birth-date, gender, max-events or availability
\* column, and returns a Swimmer with first_name 'Unknown', gender MALE,
\* max_events 6 and morning_available True; and no row with a usable name is
\* dropped because an optional column is absent
C18_RowWithoutOptionalColumnsKept ==
    parsed.called =>
        /\ OnlyLastNameAndTime =>
               /\ parsed.swimmer # None
               /\ parsed.swimmer.first_name = <<"U", "n", "k", "n", "o", "w", "n">>
               /\ parsed.swimmer.last_name = <<"L", "e", "e">>
               /\ parsed.swimmer.gender = "M"
               /\ parsed.swimmer.max_events = 6
               /\ parsed.swimmer.morning_available
               /\ <<"Free", 50>> \in DOMAIN parsed.swimmer.times
               /\ parsed.swimmer.times[<<"Free", 50>>].n = 26 * parsed.swimmer.times[<<"Free", 50>>].d
        /\ (UsableName /\ ~BlankAvailability) => parsed.swimmer # None

-----------------------------------------------------------------------------
(* Properties of Phase 1                                                   *)

\* the slot the next pass of the first loop is about
Phase1Slot == events[event_index]

\* the swimmers of the lists the subsets are enumerated from: none when the
\* pool is too small for an enumeration to take place
EnumeratedPool ==
    IF Len(Phase1Pool(Phase1Slot, EngineState)) < 4 THEN {}
    ELSE UNION {Range(c) : c \in Range(Phase1Candidates(Phase1Slot, Phase1Pool(Phase1Slot, EngineState)))}

\* C21: every swimmer of the pool Phase 1 enumerates for a slot is eligible
\* for the slot and has fewer events than max_events when the pool is built
C21_Phase1PoolUnderQuota ==
    pc = "phase1" =>
        \A s \in EnumeratedPool :
            /\ s \in Range(get_eligible_swimmers(Phase1Slot))
            /\ Cardinality(swimmer_events[s]) < swimmers[s].max_events

\* C22: one pass of Phase 1 changes only the entry of its slot and adds one
\* event to exactly the four members of the installed team; when no team is
\* found nothing changes
C22_Phase1Frame ==
    [][pc = "phase1" =>
          /\ \A n \in DOMAIN solution \ {Phase1Slot.event_number} : solution'[n] = solution[n]
          /\ solution'[Phase1Slot.event_number] = None =>
                 /\ solution[Phase1Slot.event_number] = None
                 /\ swimmer_events' = swimmer_events
                 /\ events_assigned' = events_assigned
          /\ solution'[Phase1Slot.event_number] # None =>
                 \A s \in 1..Len(swimmers) :
                     /\ swimmer_events'[s] =
                            IF s \in Range(solution'[Phase1Slot.event_number])
                            THEN swimmer_events[s] \cup {Phase1Slot.event_number}
                            ELSE swimmer_events[s]
                     /\ events_assigned'[s] =
                            IF s \in Range(solution'[Phase1Slot.event_number])
                            THEN events_assigned[s] + 1
                            ELSE events_assigned[s]]_vars

\* the legal teams create_valid_team yields from the subsets of the
\* truncated pool, as the pool and the counters are when the pass starts
LegalFromTopK ==
    {create_valid_team(c, Phase1Slot, events_assigned) :
        c \in Range(Phase1Candidates(Phase1Slot, Phase1Pool(Phase1Slot, EngineState)))} \ {None}

\* C23: the team Phase 1 installs has a z-score at least that of every
\* legal team of the subsets of the truncated pool, and Phase 1 leaves the
\* slot unfilled only if no subset yields a legal team
C23_Phase1InstallsBest ==
    [][pc = "phase1" =>
          /\ solution'[Phase1Slot.event_number] # None =>
                 \A t \in LegalFromTopK :
                     ~Lt(calculate_z_score(solution'[Phase1Slot.event_number], Phase1Slot),
                         calculate_z_score(t, Phase1Slot))
          /\ solution'[Phase1Slot.event_number] = None => LegalFromTopK = {}]_vars

\* the first slot has been given a team that scores strictly higher than
\* another legal team of the subsets of its pool
C23_Witness ==
    /\ last_op.kind = "phase1"
    /\ last_op.to = events[1].event_number
    /\ solution[events[1].event_number] # None
    /\ \E c \in Range(Phase1Candidates(events[1], Phase1Pool(events[1], EmptyEngine))) :
           /\ create_valid_team(c, events[1], EmptyEngine.events_assigned) # None
           /\ Lt(calculate_z_score(create_valid_team(c, events[1], EmptyEngine.events_assigned), events[1]),
                 calculate_z_score(solution[events[1].event_number], events[1]))

-----------------------------------------------------------------------------
(* Properties of the engine operations of Phase 3                          *)

\* a Phase 3 iteration is taking place
Iterating == pc = "phase3" /\ iteration' = iteration + 1

\* the state remove_swimmer_from_event left before add_swimmer_to_event ran,
\* and the slot the swimmer was to move to
Between == last_op'.mid

Target == EventByNumber(last_op'.to)

\* the iteration added its swimmer to a slot whose team had four members
AddedToFullTeam ==
    /\ Iterating
    /\ last_op'.improved
    /\ Between.solution[last_op'.to] # None
    /\ Len(Between.solution[last_op'.to]) = 4

\* the members of that team who are no longer in it
Displaced == Range(Between.solution[last_op'.to]) \ Range(solution'[last_op'.to])

\* C24: the member add_swimmer_to_event displaces from a full team is the
\* one whose leg time in that team is the largest of the four
C24_DisplacesSlowest ==
    [][AddedToFullTeam =>
          \A x \in Displaced : \A y \in Range(Between.solution[last_op'.to]) :
              ~TimeLt(get_swimmer_time_for_event(x, Target, Between.solution[last_op'.to]),
                      get_swimmer_time_for_event(y, Target, Between.solution[last_op'.to]))]_vars

\* C26: the usage table and the solution map agree: a slot is in
\* swimmer_events[p] exactly when its team has p as a member
C26_UsageAgreesWithSolution ==
    \A p \in 1..Len(swimmers) : \A n \in DOMAIN solution :
        n \in swimmer_events[p] <=> (solution[n] # None /\ p \in Range(solution[n]))

\* C27: every team of the solution map has four pairwise distinct members
C27_TeamsOfFourDistinct ==
    \A n \in DOMAIN solution :
        solution[n] # None => Len(solution[n]) = 4 /\ Cardinality(Range(solution[n])) = 4

\* C28: when an iteration reports an improvement, its swimmer is a member
\* of the team of the new slot and no longer one of the former worst slot
C28_ImprovedMeansMoved ==
    [][(Iterating /\ last_op'.improved) =>
          /\ solution'[last_op'.to] # None
          /\ last_op'.swimmer \in Range(solution'[last_op'.to])
          /\ solution'[last_op'.from] # None =>
                 last_op'.swimmer \notin Range(solution'[last_op'.from])]_vars

\* C29: an iteration that reports no improvement leaves the solution map
\* and every usage counter as they were
C29_NoImprovementNoChange ==
    [][(Iterating /\ ~last_op'.improved) =>
          /\ solution' = solution
          /\ swimmer_events' = swimmer_events
          /\ events_assigned' = events_assigned]_vars

\* the iteration called remove_swimmer_from_event for its swimmer, who was a
\* member of the team of the slot
Removing ==
    /\ Iterating
    /\ last_op'.from # NoEvent
    /\ solution[last_op'.from] # None
    /\ last_op'.swimmer \in Range(solution[last_op'.from])

\* the other members, and the replacement find_replacement_swimmer selects
\* once the slot is discarded from the usage of the removed swimmer
Remaining == SelectSeq(solution[last_op'.from], LAMBDA x : x # last_op'.swimmer)

Replacement ==
    find_replacement_swimmer(Remaining, EventByNumber(last_op'.from),
                             DiscardEvent(EngineState, last_op'.swimmer, last_op'.from))

\* C30: the replacement selected for a removed swimmer is neither that
\* swimmer nor one of the three remaining members, and has fewer events
\* than max_events
C30_ReplacementIsSomeoneElse ==
    [][(Removing /\ Replacement # NoSwimmer) =>
          /\ Replacement # last_op'.swimmer
          /\ Replacement \notin Range(Remaining)
          /\ Cardinality(swimmer_events[Replacement]) < swimmers[Replacement].max_events]_vars

-----------------------------------------------------------------------------
(* Properties of the start of a run                                        *)

\* the first pass is about to look at its first event
FirstPassStarts == pc = "phase1" /\ event_index = 1

\* the solution the two passes produce is the one they produce from records
\* whose events_assigned were zero before the run
SolutionAsFromZero ==
    (pc = "phase3" /\ iteration = 0) =>
        \A n \in EventNumbers : solution[n] = Replayed.solution[n]

\* C25: when the first pass starts every usage counter is zero, in the
\* swimmer_events table and in the events_assigned fields alike, so that
\* the solution does not depend on the events_assigned values the records
\* carried before the run
C25_RunStartsFromZero ==
    /\ FirstPassStarts =>
           \A s \in 1..Len(swimmers) : swimmer_events[s] = {} /\ events_assigned[s] = 0
    /\ SolutionAsFromZero

====
